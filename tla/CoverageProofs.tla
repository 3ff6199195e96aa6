--------------------------- MODULE CoverageProofs ---------------------------
(***************************************************************************)
(* Proofs about Coverage, for every set of policies and suites: rules and  *)
(* tests of any number, operations in any order, each ended by its return, *)
(* by a failed test or by an exception.                                    *)
(***************************************************************************)
EXTENDS Coverage, FunctionTheorems, FiniteSetTheorems, SequenceTheorems, TLAPS

CellSet == {"MATCH", "NO_MATCH", "INDETERMINATE", "EFFECT", "NA", "RULE_INDETERMINATE"}

Busy == pc \in {"parse", "target", "rules"}

-----------------------------------------------------------------------------
(* Jobs and the evaluation of rules.                                       *)

\* A test that fits a policy: it tells an outcome for each rule.
Fits(p, t) ==
    p \in PolicyRecords /\ t \in Tests /\ Len(t.outcomes) = Len(p.rules)

LEMMA JobFacts ==
    ASSUME NEW j \in Jobs
    PROVE  /\ j \in JobRecords /\ j.policy \in PolicyRecords
           /\ Len(j.policy.rules) \in Nat
           /\ DOMAIN j.policy.rules = 1..Len(j.policy.rules)
           /\ Len(j.tests) \in Nat \ {0}
           /\ DOMAIN j.tests = 1..Len(j.tests)
           /\ \A t \in 1..Len(j.tests) : Fits(j.policy, j.tests[t])
<1>1. j \in JobRecords /\ j.policy \in PolicyRecords /\ j.tests \in Seq(Tests)
    BY JobsAssumption DEF JobRecords
<1>2. j.policy.rules \in Seq(RuleDecls)
    BY <1>1 DEF PolicyRecords
<1>3. /\ Len(j.policy.rules) \in Nat /\ DOMAIN j.policy.rules = 1..Len(j.policy.rules)
      /\ Len(j.tests) \in Nat /\ DOMAIN j.tests = 1..Len(j.tests)
    BY <1>1, <1>2
<1>4. Len(j.tests) > 0 /\ \A t \in DOMAIN j.tests : Len(j.tests[t].outcomes) = Len(j.policy.rules)
    BY JobsAssumption
<1>5. \A t \in 1..Len(j.tests) : j.tests[t] \in Tests
    BY <1>1
<1> QED BY <1>1, <1>3, <1>4, <1>5 DEF Fits

LEMMA RulesOnType ==
    ASSUME NEW p, NEW t, Fits(p, t), NEW k \in 1..Len(p.rules)
    PROVE  RulesOn(p, t)[k] \in Rules
<1>1. /\ p.rules \in Seq(RuleDecls) /\ t \in Tests
      /\ t.outcomes \in Seq([target : TargetResults, condition : ConditionResults])
      /\ Len(t.outcomes) = Len(p.rules)
    BY DEF Fits, PolicyRecords, Tests
<1>2. p.rules[k] \in RuleDecls
    BY <1>1
<1>3. t.outcomes[k] \in [target : TargetResults, condition : ConditionResults]
    <2>1. k \in 1..Len(t.outcomes)
        BY <1>1
    <2> QED BY <1>1, <2>1, ElementOfSeq
<1> QED BY <1>2, <1>3 DEF RulesOn, Rules, RuleDecls

\* What the trace of a rule records of its decision.
CellOf(value) ==
    IF value \in Effects THEN "EFFECT" ELSE IF value = NotApplicable THEN "NA"
    ELSE "RULE_INDETERMINATE"

\* The aspect's copy of Rule.evaluate and the original agree.
LEMMA TracedAgrees ==
    ASSUME NEW r \in Rules
    PROVE  /\ TracedEvaluate(r).value = RuleEvaluate(r)
           /\ TracedEvaluate(r).cell = CellOf(RuleEvaluate(r))
<1> USE DEF TracedEvaluate, Traced, RuleCell, Extend, RuleEvaluate, RuleError, CellOf,
            Effects, Permit, Deny, NotApplicable
<1>1. /\ r.version \in {"2.0", "3.0"} /\ r.effect \in {"Permit", "Deny"}
      /\ r.target \in {"Match", "NoMatch", "Error", "none"}
      /\ r.condition \in {"True", "False", "Error", "none"}
    BY DEF Rules, TargetResults, MatchResults, ConditionResults
<1>2. CASE r.target = "NoMatch"
    BY <1>1, <1>2
<1>3. CASE r.target = "Error"
    BY <1>1, <1>3
<1>4. CASE r.target \in {"Match", "none"}
    <2>1. CASE r.condition = "none"
        BY <1>1, <1>4, <2>1
    <2>2. CASE r.condition = "Error"
        BY <1>1, <1>4, <2>2
    <2>3. CASE r.condition = "True"
        BY <1>1, <1>4, <2>3
    <2>4. CASE r.condition = "False"
        BY <1>1, <1>4, <2>4
    <2> QED BY <1>1, <2>1, <2>2, <2>3, <2>4
<1> QED BY <1>1, <1>2, <1>3, <1>4

-----------------------------------------------------------------------------
(* Entries and their indices.                                              *)

\* Where the entry of rule k is.
Offset(p) == IF p.targeted THEN 1 ELSE 0
RuleEntry(p, k) == k + Offset(p)

LEMMA EntriesFacts ==
    ASSUME NEW p \in PolicyRecords
    PROVE  /\ Len(Entries(p)) = Len(p.rules) + Offset(p)
           /\ Len(Entries(p)) \in Nat
           /\ DOMAIN Entries(p) = 1..Len(Entries(p))
           /\ p.targeted => Entries(p)[1] = TargetPath
           /\ \A k \in 1..Len(p.rules) :
                 /\ RuleEntry(p, k) \in DOMAIN Entries(p)
                 /\ Entries(p)[RuleEntry(p, k)] = RulePath(p, k)
                 /\ RulePath(p, k) # TargetPath
           /\ \A e \in DOMAIN Entries(p) :
                 \/ p.targeted /\ e = 1
                 \/ \E k \in 1..Len(p.rules) : e = RuleEntry(p, k)
<1> DEFINE paths == [k \in 1..Len(p.rules) |-> RulePath(p, k)]
<1>1. p.rules \in Seq(RuleDecls) /\ p.targeted \in BOOLEAN /\ Len(p.rules) \in Nat
    BY DEF PolicyRecords
<1>2. \A k \in 1..Len(p.rules) : RulePath(p, k) \in RuleIds
    <2>1. \A k \in 1..Len(p.rules) : p.rules[k] \in RuleDecls
        BY <1>1
    <2> QED BY <2>1 DEF RulePath, RuleDecls
<1>3. paths \in Seq(RuleIds) /\ Len(paths) = Len(p.rules)
    BY <1>1, <1>2
<1> HIDE DEF paths
<1>4. CASE p.targeted
    <2>1. Entries(p) = <<TargetPath>> \o paths
        BY <1>4 DEF Entries, paths
    <2>2. <<TargetPath>> \in Seq({TargetPath} \cup RuleIds) /\ paths \in Seq({TargetPath} \cup RuleIds)
        BY <1>3
    <2>3. /\ Len(Entries(p)) = 1 + Len(p.rules)
          /\ DOMAIN Entries(p) = 1..1 + Len(p.rules)
          /\ Entries(p)[1] = TargetPath
          /\ \A k \in 1..Len(p.rules) : Entries(p)[k + 1] = paths[k]
        BY <1>1, <1>3, <2>1, <2>2
    <2>4. \A k \in 1..Len(p.rules) : paths[k] = RulePath(p, k) /\ RulePath(p, k) # TargetPath
        BY <1>2, PathsAssumption DEF paths
    <2>5. \A e \in 1..1 + Len(p.rules) : e = 1 \/ \E k \in 1..Len(p.rules) : e = k + 1
        <3>1. \A e \in 1..1 + Len(p.rules) : e # 1 => e - 1 \in 1..Len(p.rules) /\ e = (e - 1) + 1
            BY <1>1
        <3> QED BY <3>1
    <2>6. Offset(p) = 1
        BY <1>4 DEF Offset
    <2> QED BY <1>1, <1>4, <2>3, <2>4, <2>5, <2>6 DEF RuleEntry
<1>5. CASE ~p.targeted
    <2>1. Entries(p) = <<>> \o paths
        BY <1>5 DEF Entries, paths
    <2>2. Entries(p) = paths
        BY <1>3, <2>1
    <2> QED BY <1>1, <1>2, <1>3, <1>5, <2>2, PathsAssumption DEF paths, Offset, RuleEntry
<1> QED BY <1>1, <1>4, <1>5

\* The map has finitely many keys, so a row has a length.
LEMMA MappingIsFinite ==
    ASSUME NEW p \in PolicyRecords
    PROVE  Cardinality(DOMAIN MappingOf(p)) \in Nat
<1> DEFINE E == Entries(p)
           n == Len(E)
           S == {E[e] : e \in DOMAIN E}
<1>1. n \in Nat /\ DOMAIN E = 1..n
    BY EntriesFacts
<1>2. DOMAIN MappingOf(p) = S
    BY DEF MappingOf
<1>3. IsFiniteSet(1..n)
    BY <1>1, FS_Interval
<1> DEFINE f == [e \in 1..n |-> E[e]]
<1>4. f \in Surjection(1..n, S)
    <2>1. f \in [1..n -> S] /\ \A s \in S : \E e \in 1..n : f[e] = s
        BY <1>1
    <2> QED BY <2>1, Fun_IsSurj
<1>5. IsFiniteSet(S)
    BY <1>3, <1>4, FS_Surjection
<1> HIDE DEF S
<1>6. Cardinality(S) \in Nat
    BY <1>5, FS_CardinalityType
<1> QED BY <1>2, <1>6

\* With different rule ids every entry has its own index.
LEMMA MappingFacts ==
    ASSUME NEW p \in PolicyRecords, UniqueIds(p)
    PROVE  /\ Cardinality(DOMAIN MappingOf(p)) = Len(Entries(p))
           /\ \A e \in DOMAIN Entries(p) :
                 Entries(p)[e] \in DOMAIN MappingOf(p) /\ MappingOf(p)[Entries(p)[e]] = e
<1> DEFINE E == Entries(p)
           n == Len(E)
           S == {E[e] : e \in DOMAIN E}
<1>1. n \in Nat /\ DOMAIN E = 1..n
    BY EntriesFacts
<1>2. DOMAIN p.rules = 1..Len(p.rules)
    BY DEF PolicyRecords
<1>3. ASSUME NEW e \in 1..n, NEW d \in 1..n, E[e] = E[d]
      PROVE  e = d
    <2>1. \A c \in 1..n :
              \/ c = 1 /\ E[c] = TargetPath
              \/ \E k \in 1..Len(p.rules) :
                    c = RuleEntry(p, k) /\ E[c] = RulePath(p, k) /\ E[c] # TargetPath
        <3> TAKE c \in 1..n
        <3>1. c \in DOMAIN E
            BY <1>1
        <3>2. CASE p.targeted /\ c = 1
            BY <3>2, EntriesFacts
        <3>3. CASE \E k \in 1..Len(p.rules) : c = RuleEntry(p, k)
            BY <3>3, EntriesFacts
        <3> QED BY <3>1, <3>2, <3>3, EntriesFacts
    <2>2. \A k, l \in 1..Len(p.rules) : RulePath(p, k) = RulePath(p, l) => k = l
        BY <1>2 DEF UniqueIds, RulePath
    <2> HIDE DEF E, n
    <2> QED BY <1>3, <2>1, <2>2
<1>4. DOMAIN MappingOf(p) = S
    BY DEF MappingOf
<1> DEFINE f == [e \in 1..n |-> E[e]]
<1>5. f \in Bijection(1..n, S)
    <2>1. f \in [1..n -> S] /\ \A s \in S : \E e \in 1..n : f[e] = s
        BY <1>1
    <2>2. \A a, b \in 1..n : f[a] = f[b] => a = b
        BY <1>3
    <2> QED BY <2>1, <2>2, Fun_IsBij
<1>6. Cardinality(S) = n
    BY <1>1, <1>5, Fun_ExistsBij, FS_CountingElements
<1>7. ASSUME NEW e \in DOMAIN E
      PROVE  E[e] \in DOMAIN MappingOf(p) /\ MappingOf(p)[E[e]] = e
    <2>1. E[e] \in S
        OBVIOUS
    <2>2. MappingOf(p)[E[e]] =
              CHOOSE d \in DOMAIN E : E[d] = E[e] /\ \A later \in DOMAIN E : E[later] = E[e] => later <= d
        BY <2>1 DEF MappingOf
    <2>3. \A later \in DOMAIN E : E[later] = E[e] => later <= e
        BY <1>1, <1>3
    <2>4. \A d \in DOMAIN E : E[d] = E[e] => d = e
        BY <1>1, <1>3
    <2> QED BY <1>4, <2>1, <2>2, <2>3, <2>4
<1> QED BY <1>4, <1>6, <1>7

-----------------------------------------------------------------------------
(* The inductive invariant.                                                *)

\* An operation runs tests of a known suite, one at a time.
JobInv ==
    /\ job \in Jobs /\ mode \in Modes
    /\ pc \in {"idle", "test", "parse", "target", "rules", "returned", "aborted"}
    /\ test \in 0..Len(job.tests) /\ rule \in 0..Len(job.policy.rules)
    /\ Busy => test > 0

\* The rules evaluated so far are rules the test reaches.
PhaseInv ==
    /\ pc \in {"parse", "target"} => rule = 0
    /\ pc \in {"target", "rules"} => CurrentTest.parses
    /\ pc = "rules" => Reached(job.policy, CurrentTest, rule)

Suite == mode = "runTests" /\ (Busy \/ pc \in {"test", "returned"})

\* Rows are as long as the mapping and belong to the policy under test.
MatrixInv ==
    /\ matrix \in Seq(Seq(CellSet))
    /\ \A r \in 1..Len(matrix) : Len(matrix[r]) = Cardinality(DOMAIN mapping)
    /\ Busy \/ Suite => mapping = MappingOf(job.policy)
    /\ Busy => Len(matrix) = IF mode = "runTests" THEN test ELSE 1
    /\ Suite => Len(matrix) = test

\* A verdict that the answers to a test allow.
Judged(verdict, p, t) ==
    IF verdict THEN t.oracle \in Verdict(p, t) ELSE Verdict(p, t) # {t.oracle}

\* One verdict for each test that is over; a mutant's tests pass until it is
\* killed.
VerdictsInv ==
    /\ verdicts \in Seq(BOOLEAN) /\ Len(verdicts) <= test
    /\ mode # "runTestWithoutOracle" =>
          /\ pc \in {"test", "returned"} => Len(verdicts) = test
          /\ Busy => Len(verdicts) = test - 1
    /\ \A v \in 1..Len(verdicts) : Judged(verdicts[v], job.policy, job.tests[v])
    /\ mode = "isKilled" =>
          /\ Busy \/ pc = "test" => \A v \in 1..Len(verdicts) : verdicts[v]
          /\ pc = "returned" =>
                /\ verdicts # <<>>
                /\ \A v \in 1..(Len(verdicts) - 1) : verdicts[v]
                /\ verdicts[Len(verdicts)] => Len(verdicts) = Len(job.tests)

\* A suite publishes its verdicts when all its tests are over.
ResultsInv ==
    mode = "runTests" /\ pc = "returned" => results = verdicts /\ test = Len(job.tests)

\* Row after the first k rules have been traced, and perhaps the target.
SoFar(row, p, t, targetTraced, k) ==
    /\ row \in Seq(CellSet) /\ Len(row) = Len(Entries(p))
    /\ p.targeted => (row[1] = "MATCH") = (targetTraced /\ t.parses /\ t.target = "Match")
    /\ \A l \in 1..Len(p.rules) :
          row[RuleEntry(p, l)] = IF l <= k THEN Expected(p, t, l) ELSE "NO_MATCH"
Described(row, p, t) == SoFar(row, p, t, TRUE, Len(p.rules))

\* With different rule ids, the rows of a suite describe its tests.
RowsInv ==
    Suite /\ UniqueIds(job.policy) =>
        /\ \A r \in 1..Len(matrix) :
              r < test \/ ~Busy => Described(matrix[r], job.policy, job.tests[r])
        /\ Busy => SoFar(matrix[test], job.policy, CurrentTest, pc = "rules", rule)

IInv == JobInv /\ PhaseInv /\ MatrixInv /\ VerdictsInv /\ ResultsInv /\ RowsInv

-----------------------------------------------------------------------------
(* One row, from placeholders to the description of its test.              *)

LEMMA PlaceholdersFacts ==
    ASSUME NEW map, Cardinality(DOMAIN map) \in Nat
    PROVE  /\ Placeholders(map) \in Seq(CellSet)
           /\ Len(Placeholders(map)) = Cardinality(DOMAIN map)
           /\ \A e \in 1..Cardinality(DOMAIN map) : Placeholders(map)[e] = "NO_MATCH"
BY DEF Placeholders, CellSet

\* Only a policy with a target has its path among the keys.
LEMMA TargetIsKey ==
    ASSUME NEW p \in PolicyRecords, TargetPath \in DOMAIN MappingOf(p)
    PROVE  p.targeted
<1>1. PICK e \in DOMAIN Entries(p) : Entries(p)[e] = TargetPath
    BY DEF MappingOf
<1> QED BY <1>1, EntriesFacts

\* Setting a cell keeps a row a row, wherever the cell is.
LEMMA SetCell ==
    ASSUME NEW row \in Seq(CellSet), NEW e, NEW cell \in CellSet
    PROVE  /\ [row EXCEPT ![e] = cell] \in Seq(CellSet)
           /\ Len([row EXCEPT ![e] = cell]) = Len(row)
           /\ \A d \in 1..Len(row) :
                 [row EXCEPT ![e] = cell][d] = IF d = e THEN cell ELSE row[d]
<1> DEFINE next == [d \in 1..Len(row) |-> IF d = e THEN cell ELSE row[d]]
<1>1. [row EXCEPT ![e] = cell] = next
    OBVIOUS
<1>2. next \in Seq(CellSet) /\ Len(next) = Len(row)
    <2>1. Len(row) \in Nat /\ next \in [1..Len(row) -> CellSet]
        OBVIOUS
    <2> HIDE DEF next
    <2> QED BY <2>1
<1>3. \A d \in 1..Len(row) : next[d] = IF d = e THEN cell ELSE row[d]
    OBVIOUS
<1> HIDE DEF next
<1> QED BY <1>1, <1>2, <1>3

LEMMA FreshRow ==
    ASSUME NEW p \in PolicyRecords, UniqueIds(p), NEW t
    PROVE  SoFar(Placeholders(MappingOf(p)), p, t, FALSE, 0)
<1> DEFINE row == Placeholders(MappingOf(p))
<1>1. /\ row \in Seq(CellSet) /\ Len(row) = Len(Entries(p))
      /\ \A e \in DOMAIN Entries(p) : row[e] = "NO_MATCH"
    BY MappingFacts, MappingIsFinite, PlaceholdersFacts, EntriesFacts
<1>2. p.targeted => 1 \in DOMAIN Entries(p)
    <2>1. Len(p.rules) \in Nat
        BY DEF PolicyRecords
    <2>2. DOMAIN Entries(p) = 1..(Len(p.rules) + Offset(p))
        BY EntriesFacts
    <2> QED BY <2>1, <2>2 DEF Offset
<1>3. \A l \in 1..Len(p.rules) : RuleEntry(p, l) \in DOMAIN Entries(p) /\ ~(l <= 0)
    BY EntriesFacts
<1> HIDE DEF row
<1>4. SoFar(row, p, t, FALSE, 0)
    BY <1>1, <1>2, <1>3 DEF SoFar
<1> QED BY <1>4 DEF row

LEMMA TargetRow ==
    ASSUME NEW p \in PolicyRecords, NEW t, p.targeted, t.parses, NEW row,
           SoFar(row, p, t, FALSE, 0), NEW cell \in CellSet,
           (cell = "MATCH") = (t.target = "Match")
    PROVE  SoFar([row EXCEPT ![1] = cell], p, t, TRUE, 0)
<1>1. Len(p.rules) \in Nat /\ Offset(p) = 1
    BY DEF PolicyRecords, Offset
<1>2. /\ row \in Seq(CellSet) /\ Len(row) = Len(p.rules) + 1 /\ Len(row) = Len(Entries(p))
      /\ \A l \in 1..Len(p.rules) : row[l + 1] = "NO_MATCH"
    BY <1>1, EntriesFacts DEF SoFar, RuleEntry
<1>3. /\ [row EXCEPT ![1] = cell] \in Seq(CellSet)
      /\ Len([row EXCEPT ![1] = cell]) = Len(row)
      /\ \A d \in 1..Len(row) :
            [row EXCEPT ![1] = cell][d] = IF d = 1 THEN cell ELSE row[d]
    BY <1>2, SetCell
<1>4. /\ [row EXCEPT ![1] = cell][1] = cell
      /\ \A l \in 1..Len(p.rules) : [row EXCEPT ![1] = cell][l + 1] = "NO_MATCH"
    BY <1>1, <1>2, <1>3
<1> QED BY <1>1, <1>2, <1>3, <1>4 DEF SoFar, RuleEntry

LEMMA RuleRow ==
    ASSUME NEW p \in PolicyRecords, NEW t, NEW row, NEW k \in Nat, k < Len(p.rules),
           SoFar(row, p, t, TRUE, k), Reached(p, t, k + 1)
    PROVE  SoFar([row EXCEPT ![RuleEntry(p, k + 1)] = CellOf(RuleEvaluate(RulesOn(p, t)[k + 1]))],
                 p, t, TRUE, k + 1)
<1> DEFINE cell == CellOf(RuleEvaluate(RulesOn(p, t)[k + 1]))
           next == [row EXCEPT ![RuleEntry(p, k + 1)] = cell]
<1>1. Len(p.rules) \in Nat /\ Offset(p) \in {0, 1} /\ (p.targeted => Offset(p) = 1)
    BY DEF PolicyRecords, Offset
<1>2. cell \in CellSet /\ Expected(p, t, k + 1) = cell
    BY DEF CellOf, CellSet, Expected
<1>3. row \in Seq(CellSet) /\ Len(row) = Len(p.rules) + Offset(p) /\ Len(row) = Len(Entries(p))
    BY EntriesFacts DEF SoFar
<1>4. /\ next \in Seq(CellSet) /\ Len(next) = Len(row)
      /\ \A d \in 1..Len(row) : next[d] = IF d = RuleEntry(p, k + 1) THEN cell ELSE row[d]
    BY <1>2, <1>3, SetCell
<1> HIDE DEF cell, next
<1>5. p.targeted => next[1] = row[1]
    BY <1>1, <1>3, <1>4 DEF RuleEntry
<1>6. ASSUME NEW l \in 1..Len(p.rules)
      PROVE  next[RuleEntry(p, l)] = IF l <= k + 1 THEN Expected(p, t, l) ELSE "NO_MATCH"
    <2>1. next[RuleEntry(p, l)] = IF l = k + 1 THEN cell ELSE row[RuleEntry(p, l)]
        <3>1. RuleEntry(p, l) \in 1..Len(row)
            BY <1>1, <1>3 DEF RuleEntry
        <3>2. RuleEntry(p, l) = RuleEntry(p, k + 1) <=> l = k + 1
            BY <1>1 DEF RuleEntry
        <3> QED BY <1>4, <3>1, <3>2
    <2>2. row[RuleEntry(p, l)] = IF l <= k THEN Expected(p, t, l) ELSE "NO_MATCH"
        BY DEF SoFar
    <2> QED BY <1>2, <2>1, <2>2
<1>7. SoFar(next, p, t, TRUE, k + 1)
    BY <1>3, <1>4, <1>5, <1>6 DEF SoFar
<1> QED BY <1>7 DEF next, cell

\* A row is finished when the rules that are left are not reached.
LEMMA RowOver ==
    ASSUME NEW p, NEW t, NEW row, NEW traced \in BOOLEAN, NEW k \in Nat,
           SoFar(row, p, t, traced, k),
           \A l \in 1..Len(p.rules) : l > k => ~Reached(p, t, l),
           ~traced => ~(t.parses /\ t.target = "Match"), Len(p.rules) \in Nat
    PROVE  Described(row, p, t)
<1>1. \A l \in 1..Len(p.rules) : l > k => Expected(p, t, l) = "NO_MATCH"
    BY DEF Expected
<1>2. \A l \in 1..Len(p.rules) : row[RuleEntry(p, l)] = Expected(p, t, l)
    BY <1>1 DEF SoFar
<1>3. p.targeted => (row[1] = "MATCH") = (TRUE /\ t.parses /\ t.target = "Match")
    BY DEF SoFar
<1> QED BY <1>2, <1>3 DEF SoFar, Described

\* A finished row is one that MatrixDescribesSuite asks for.
LEMMA DescribedRow ==
    ASSUME NEW p \in PolicyRecords, NEW t, NEW row, Described(row, p, t)
    PROVE  RowDescribesTest(row, p, t)
<1> DEFINE n == Len(Entries(p))
<1>1. /\ Len(p.rules) \in Nat /\ Offset(p) \in Nat /\ n = Len(p.rules) + Offset(p)
      /\ n - Len(p.rules) = Offset(p)
    <2>1. Len(p.rules) \in Nat /\ Offset(p) \in {0, 1}
        BY DEF PolicyRecords, Offset
    <2> QED BY <2>1, EntriesFacts
<1>2. Len(row) = n
    BY DEF Described, SoFar
<1>3. ASSUME NEW e \in DOMAIN Entries(p)
      PROVE  IF Entries(p)[e] = TargetPath
             THEN (row[e] = "MATCH") = (t.parses /\ t.target = "Match")
             ELSE row[e] = Expected(p, t, e - (n - Len(p.rules)))
    <2>1. CASE p.targeted /\ e = 1
        BY <2>1, EntriesFacts DEF Described, SoFar
    <2>2. CASE \E k \in 1..Len(p.rules) : e = RuleEntry(p, k)
        <3>1. PICK k \in 1..Len(p.rules) : e = RuleEntry(p, k)
            BY <2>2
        <3>2. Entries(p)[e] # TargetPath
            BY <3>1, EntriesFacts
        <3>3. row[e] = Expected(p, t, k)
            BY <1>1, <3>1 DEF Described, SoFar
        <3>4. e - (n - Len(p.rules)) = k
            BY <1>1, <3>1 DEF RuleEntry
        <3> QED BY <3>2, <3>3, <3>4
    <2> QED BY <2>1, <2>2, EntriesFacts
<1> QED BY <1>2, <1>3 DEF RowDescribesTest

-----------------------------------------------------------------------------
(* One lemma for each step.                                                *)

LEMMA InitIInv == Init => IInv
<1> SUFFICES ASSUME Init PROVE IInv
    OBVIOUS
<1>1. matrix = <<>> /\ verdicts = <<>> /\ pc = "idle" /\ test = 0 /\ rule = 0 /\ job \in Jobs
    BY DEF Init
<1>2. /\ Len(job.tests) \in Nat /\ Len(job.policy.rules) \in Nat
    BY <1>1, JobFacts
<1>3. JobInv
    BY <1>1, <1>2 DEF JobInv, Init, Busy, Modes
<1>4. matrix \in Seq(Seq(CellSet)) /\ Len(matrix) = 0 /\ verdicts \in Seq(BOOLEAN) /\ Len(verdicts) = 0
    BY <1>1
<1>5. PhaseInv /\ MatrixInv /\ VerdictsInv /\ ResultsInv /\ RowsInv
    BY <1>1, <1>4 DEF Init, PhaseInv, MatrixInv, VerdictsInv, ResultsInv, RowsInv, Busy, Suite
<1> QED BY <1>3, <1>5 DEF IInv

LEMMA BeginStep ==
    ASSUME IInv, NEW j \in Jobs, NEW m \in Modes, Begin(j, m)
    PROVE  IInv'
<1>1. /\ job' = j /\ mode' = m /\ pc' = "test" /\ test' = 0 /\ rule' = 0 /\ verdicts' = <<>>
    BY DEF Begin
<1>2. Len(j.tests) \in Nat /\ Len(j.policy.rules) \in Nat
    BY JobFacts
<1>3. JobInv'
    BY <1>1, <1>2 DEF JobInv, Busy
<1>4. PhaseInv'
    BY <1>1 DEF PhaseInv
<1>5. MatrixInv'
    <2>1. CASE m = "runTests"
        <3>1. matrix' = <<>> /\ mapping' = MappingOf(j.policy)
            BY <2>1 DEF Begin, InitCoverage
        <3>2. matrix' \in Seq(Seq(CellSet)) /\ Len(matrix') = 0
            BY <3>1
        <3> QED BY <1>1, <3>1, <3>2 DEF MatrixInv, Busy, Suite
    <2>2. CASE m # "runTests"
        <3>1. matrix' = matrix /\ mapping' = mapping
            BY <2>2 DEF Begin, static
        <3> QED BY <1>1, <2>2, <3>1 DEF IInv, MatrixInv, Busy, Suite
    <2> QED BY <2>1, <2>2
<1>6. verdicts' \in Seq(BOOLEAN) /\ Len(verdicts') = 0
    BY <1>1
<1>7. VerdictsInv'
    BY <1>1, <1>6 DEF VerdictsInv, Busy
<1>8. ResultsInv'
    BY <1>1 DEF ResultsInv
<1>9. RowsInv'
    <2>1. CASE m = "runTests"
        <3>1. matrix' = <<>>
            BY <2>1 DEF Begin
        <3>2. Len(matrix') = 0
            BY <3>1
        <3> QED BY <1>1, <3>2 DEF RowsInv, Busy, Suite
    <2>2. CASE m # "runTests"
        BY <1>1, <2>2 DEF RowsInv, Suite
    <2> QED BY <2>1, <2>2
<1> QED BY <1>3, <1>4, <1>5, <1>7, <1>8, <1>9 DEF IInv

LEMMA StartTestStep ==
    ASSUME IInv, StartTest
    PROVE  IInv'
<1> DEFINE p == job.policy
           fresh == Placeholders(MappingOf(p))
<1>1. /\ pc = "test" /\ test' = test + 1 /\ rule' = 0 /\ pc' = "parse"
      /\ job' = job /\ mode' = mode /\ results' = results /\ verdicts' = verdicts
      /\ test < Planned
    BY DEF StartTest
<1>2. /\ job \in Jobs /\ mode \in Modes /\ test \in Nat
      /\ Len(job.tests) \in Nat \ {0} /\ Len(p.rules) \in Nat /\ p \in PolicyRecords
    BY JobFacts DEF IInv, JobInv
<1>3. test + 1 \in 1..Len(job.tests)
    BY <1>1, <1>2 DEF Planned
<1>4. JobInv'
    BY <1>1, <1>2, <1>3 DEF IInv, JobInv, Busy
<1>5. PhaseInv'
    BY <1>1 DEF PhaseInv
<1>6. /\ fresh \in Seq(CellSet) /\ Len(fresh) = Cardinality(DOMAIN MappingOf(p))
    BY <1>2, MappingIsFinite, PlaceholdersFacts
<1>7. mapping' = MappingOf(p)
    BY <1>1 DEF StartTest, InitCoverage, IInv, MatrixInv, Suite
<1>8. /\ matrix' \in Seq(Seq(CellSet))
      /\ Len(matrix') = IF mode = "runTests" THEN test + 1 ELSE 1
      /\ matrix'[Len(matrix')] = fresh
      /\ mode = "runTests" => /\ Len(matrix) = test
                              /\ \A r \in 1..test : matrix'[r] = matrix[r]
    <2> HIDE DEF fresh, p
    <2>1. CASE mode = "runTests"
        <3>1. mapping = MappingOf(p) /\ Len(matrix) = test /\ matrix \in Seq(Seq(CellSet))
            BY <1>1, <2>1 DEF IInv, MatrixInv, Suite, p
        <3>2. matrix' = Append(matrix, fresh)
            BY <2>1, <3>1 DEF StartTest, fresh
        <3> QED BY <1>6, <2>1, <3>1, <3>2
    <2>2. CASE mode # "runTests"
        <3>1. matrix' = <<fresh>>
            BY <2>2 DEF StartTest, fresh, p
        <3> QED BY <1>6, <2>2, <3>1
    <2> QED BY <2>1, <2>2
<1>9. MatrixInv'
    <2>1. ASSUME NEW r \in 1..Len(matrix')
          PROVE  Len(matrix'[r]) = Cardinality(DOMAIN mapping')
        <3>1. CASE r = Len(matrix')
            BY <1>6, <1>7, <1>8, <3>1
        <3>2. CASE r # Len(matrix')
            <4>1. mode = "runTests" /\ r \in 1..test
                BY <1>2, <1>8, <3>2
            <4> QED BY <1>1, <1>7, <1>8, <4>1 DEF IInv, MatrixInv, Suite
        <3> QED BY <3>1, <3>2
    <2> QED BY <1>1, <1>7, <1>8, <2>1 DEF MatrixInv, Busy, Suite
<1>10. VerdictsInv'
    BY <1>1, <1>2 DEF IInv, VerdictsInv, Busy
<1>11. ResultsInv'
    BY <1>1 DEF ResultsInv
<1>12. RowsInv'
    <2> SUFFICES ASSUME mode = "runTests", UniqueIds(p)
                 PROVE  RowsInv'
        BY <1>1 DEF RowsInv, Suite
    <2>1. SoFar(fresh, p, job.tests[test + 1], FALSE, 0)
        BY <1>2, FreshRow
    <2>2. \A r \in 1..test : Described(matrix'[r], p, job.tests[r])
        BY <1>1, <1>8 DEF IInv, RowsInv, Suite, Busy
    <2>3. Len(matrix') = test + 1 /\ matrix'[test + 1] = fresh
        BY <1>8
    <2>4. \A r \in 1..(test + 1) : r < test + 1 => r \in 1..test
        BY <1>2
    <2> HIDE DEF fresh
    <2> QED BY <1>1, <1>2, <2>1, <2>2, <2>3, <2>4 DEF RowsInv, Busy, Suite, CurrentTest
<1> QED BY <1>4, <1>5, <1>9, <1>10, <1>11, <1>12 DEF IInv

\* A test is over: its answer is judged and its row is finished.
LEMMA TestOver ==
    ASSUME IInv, Busy, NEW response \in Verdict(job.policy, CurrentTest), Judge(response),
           UNCHANGED <<results, mapping, job, mode, test, rule>>,
           matrix' \in Seq(Seq(CellSet)), Len(matrix') = Len(matrix),
           \A r \in 1..Len(matrix) :
              /\ Len(matrix'[r]) = Len(matrix[r])
              /\ r # Len(matrix) => matrix'[r] = matrix[r],
           mode = "runTests" /\ UniqueIds(job.policy) =>
              Described(matrix'[test], job.policy, CurrentTest)
    PROVE  IInv'
<1> DEFINE passed == response = CurrentTest.oracle
           broken == mode = "isKilled" /\ ~passed
<1>1. /\ job \in Jobs /\ mode \in Modes /\ test \in 1..Len(job.tests)
      /\ rule \in 0..Len(job.policy.rules) /\ Len(job.tests) \in Nat
    BY JobFacts DEF IInv, JobInv
<1>2. /\ pc' = IF broken THEN "returned" ELSE "test"
      /\ verdicts' = IF mode = "runTestWithoutOracle" THEN verdicts ELSE Append(verdicts, passed)
      /\ job' = job /\ mode' = mode /\ test' = test /\ rule' = rule
      /\ results' = results /\ mapping' = mapping
    BY DEF Judge
<1>3. pc' \in {"test", "returned"} /\ (mode = "runTests" => pc' = "test") /\ ~Busy'
    BY <1>2 DEF Busy
<1>4. JobInv'
    BY <1>1, <1>2, <1>3 DEF JobInv
<1>5. PhaseInv'
    BY <1>3 DEF PhaseInv
<1>6. MatrixInv'
    BY <1>2, <1>3 DEF IInv, MatrixInv, Suite
<1>7. VerdictsInv'
    <2>1. /\ verdicts \in Seq(BOOLEAN) /\ Len(verdicts) <= test /\ Len(verdicts) \in Nat
          /\ mode # "runTestWithoutOracle" => Len(verdicts) = test - 1
          /\ mode = "isKilled" => \A v \in 1..Len(verdicts) : verdicts[v]
          /\ \A v \in 1..Len(verdicts) : Judged(verdicts[v], job.policy, job.tests[v])
        BY DEF IInv, VerdictsInv
    <2>2. CASE mode = "runTestWithoutOracle"
        BY <1>2, <1>3, <2>1, <2>2 DEF VerdictsInv
    <2>3. CASE mode # "runTestWithoutOracle"
        <3>1. verdicts' = Append(verdicts, passed) /\ passed \in BOOLEAN
            BY <1>2, <2>3
        <3> HIDE DEF passed
        <3>2. /\ verdicts' \in Seq(BOOLEAN) /\ Len(verdicts') = test
              /\ \A v \in 1..test : verdicts'[v] = IF v = test THEN passed ELSE verdicts[v]
            BY <1>1, <2>1, <2>3, <3>1
        <3>3. Judged(passed, job.policy, job.tests[test])
            BY DEF Judged, CurrentTest, passed
        <3>4. ASSUME NEW v \in 1..test
              PROVE  Judged(verdicts'[v], job.policy, job.tests[v])
            <4>1. CASE v = test
                BY <3>2, <3>3, <4>1
            <4>2. CASE v # test
                <5>1. v \in 1..Len(verdicts) /\ verdicts'[v] = verdicts[v]
                    BY <1>1, <2>1, <2>3, <3>2, <4>2
                <5> QED BY <2>1, <5>1
            <4> QED BY <4>1, <4>2
        <3>5. mode = "isKilled" =>
                 /\ \A v \in 1..(test - 1) : verdicts'[v]
                 /\ verdicts'[test] = passed
                 /\ pc' = "returned" => ~passed
                 /\ pc' = "test" => passed
            <4>1. verdicts'[test] = passed
                BY <1>1, <3>2
            <4>2. mode = "isKilled" =>
                     pc' = IF passed THEN "test" ELSE "returned"
                BY <1>2 DEF broken
            <4>3. ASSUME mode = "isKilled", NEW v \in 1..(test - 1)
                  PROVE  verdicts'[v]
                <5>1. v \in 1..test /\ v # test /\ v \in 1..Len(verdicts)
                    BY <1>1, <2>1, <2>3
                <5> QED BY <2>1, <3>2, <4>3, <5>1
            <4> HIDE DEF broken
            <4> QED BY <4>1, <4>2, <4>3
        <3>6. mode = "isKilled" /\ pc' = "test" => \A v \in 1..test : verdicts'[v]
            <4>1. test \in Nat /\ \A v \in 1..test : v # test => v \in 1..(test - 1)
                BY <1>1
            <4> QED BY <3>5, <4>1
        <3>7. verdicts' # <<>>
            BY <1>1, <3>2
        <3> QED BY <1>1, <1>2, <1>3, <3>2, <3>4, <3>5, <3>6, <3>7 DEF VerdictsInv
    <2> QED BY <2>2, <2>3
<1>8. ResultsInv'
    BY <1>2, <1>3 DEF ResultsInv
<1>9. RowsInv'
    <2> SUFFICES ASSUME mode = "runTests", UniqueIds(job.policy)
                 PROVE  RowsInv'
        BY <1>2 DEF RowsInv, Suite
    <2>1. Len(matrix) = test /\ Suite
        BY DEF IInv, MatrixInv, Suite
    <2>2. \A r \in 1..test : r < test => Described(matrix[r], job.policy, job.tests[r])
        BY <2>1 DEF IInv, RowsInv
    <2>3. \A r \in 1..test : Described(matrix'[r], job.policy, job.tests[r])
        <3> TAKE r \in 1..test
        <3>1. CASE r = test
            BY <3>1 DEF CurrentTest
        <3>2. CASE r # test
            BY <1>1, <2>1, <2>2, <3>2
        <3> QED BY <3>1, <3>2
    <2> QED BY <1>2, <1>3, <2>1, <2>3 DEF RowsInv
<1> QED BY <1>4, <1>5, <1>6, <1>7, <1>8, <1>9 DEF IInv

\* An exception ends an operation whatever it has recorded.
LEMMA AbortStep ==
    ASSUME IInv, pc' = "aborted", UNCHANGED <<matrix, results, mapping, job, mode, test, rule, verdicts>>
    PROVE  IInv'
<1>1. JobInv'
    BY DEF IInv, JobInv, Busy
<1>2. PhaseInv' /\ ResultsInv' /\ RowsInv'
    BY DEF PhaseInv, ResultsInv, RowsInv, Suite, Busy
<1>3. MatrixInv'
    BY DEF IInv, MatrixInv, Suite, Busy
<1>4. VerdictsInv'
    BY DEF IInv, VerdictsInv, Busy
<1> QED BY <1>1, <1>2, <1>3, <1>4 DEF IInv

LEMMA BusyFacts ==
    ASSUME IInv, Busy
    PROVE  /\ job.policy \in PolicyRecords /\ test \in 1..Len(job.tests) /\ test \in Nat
           /\ rule \in 0..Len(job.policy.rules) /\ Len(job.policy.rules) \in Nat
           /\ Fits(job.policy, CurrentTest)
           /\ matrix \in Seq(Seq(CellSet)) /\ Len(matrix) \in Nat \ {0}
           /\ mode = "runTests" => Len(matrix) = test
           /\ mapping = MappingOf(job.policy)
<1>1. /\ job \in Jobs /\ test \in 0..Len(job.tests) /\ test > 0
      /\ rule \in 0..Len(job.policy.rules)
    BY DEF IInv, JobInv
<1>2. /\ job.policy \in PolicyRecords /\ Len(job.policy.rules) \in Nat /\ Len(job.tests) \in Nat
      /\ \A t \in 1..Len(job.tests) : Fits(job.policy, job.tests[t])
    BY <1>1, JobFacts
<1>3. test \in 1..Len(job.tests) /\ test \in Nat
    BY <1>1, <1>2
<1>4. matrix \in Seq(Seq(CellSet)) /\ Len(matrix) = (IF mode = "runTests" THEN test ELSE 1)
    BY DEF IInv, MatrixInv
<1>5. mapping = MappingOf(job.policy)
    BY DEF IInv, MatrixInv
<1> QED BY <1>1, <1>2, <1>3, <1>4, <1>5 DEF CurrentTest

LEMMA ParseRequestStep ==
    ASSUME IInv, ParseRequest
    PROVE  IInv'
<1>1. /\ pc = "parse" /\ Busy
      /\ UNCHANGED <<matrix, results, mapping, job, mode, test, rule>>
    BY DEF ParseRequest, Busy
<1>2. CASE CurrentTest.parses /\ pc' = "target" /\ UNCHANGED verdicts
    <2>1. JobInv' /\ PhaseInv' /\ ResultsInv'
        BY <1>1, <1>2 DEF IInv, JobInv, PhaseInv, ResultsInv, Busy, CurrentTest
    <2>2. MatrixInv'
        BY <1>1, <1>2 DEF IInv, MatrixInv, Busy, Suite
    <2>3. VerdictsInv'
        BY <1>1, <1>2 DEF IInv, VerdictsInv, Busy
    <2>4. RowsInv'
        BY <1>1, <1>2 DEF IInv, RowsInv, Busy, Suite, CurrentTest
    <2> QED BY <2>1, <2>2, <2>3, <2>4 DEF IInv
<1>3. CASE ~CurrentTest.parses /\ mode = "isKilled" /\ pc' = "aborted" /\ UNCHANGED verdicts
    BY <1>1, <1>3, AbortStep
<1>4. CASE ~CurrentTest.parses /\ mode # "isKilled" /\ Judge(MaxValue)
    <2>1. MaxValue \in Verdict(job.policy, CurrentTest)
        BY <1>4 DEF Verdict
    <2>2. mode = "runTests" /\ UniqueIds(job.policy) =>
             Described(matrix'[test], job.policy, CurrentTest)
        <3> SUFFICES ASSUME mode = "runTests", UniqueIds(job.policy)
                     PROVE  Described(matrix'[test], job.policy, CurrentTest)
            OBVIOUS
        <3>1. SoFar(matrix[test], job.policy, CurrentTest, FALSE, rule)
            BY <1>1 DEF IInv, RowsInv, Suite
        <3>2. \A l \in 1..Len(job.policy.rules) : ~Reached(job.policy, CurrentTest, l)
            BY <1>4 DEF Reached
        <3>3. rule \in Nat /\ Len(job.policy.rules) \in Nat /\ matrix' = matrix
            BY <1>1, BusyFacts
        <3>4. Described(matrix[test], job.policy, CurrentTest)
            BY <1>4, <3>1, <3>2, <3>3, RowOver, FALSE \in BOOLEAN
        <3> QED BY <3>3, <3>4
    <2> QED BY <1>1, <1>4, <2>1, <2>2, BusyFacts, TestOver
<1> QED BY <1>2, <1>3, <1>4 DEF ParseRequest

\* A cell is set in the last row only.
LEMMA AddCoverageFacts ==
    ASSUME matrix \in Seq(Seq(CellSet)), Len(matrix) \in Nat \ {0},
           NEW cell \in CellSet, NEW path, AddCoverage(cell, path)
    PROVE  /\ matrix' \in Seq(Seq(CellSet)) /\ Len(matrix') = Len(matrix)
           /\ \A r \in 1..Len(matrix) :
                 /\ Len(matrix'[r]) = Len(matrix[r])
                 /\ r # Len(matrix) => matrix'[r] = matrix[r]
           /\ matrix'[Len(matrix)] = [matrix[Len(matrix)] EXCEPT ![mapping[path]] = cell]
<1> DEFINE n == Len(matrix)
           row == [matrix[n] EXCEPT ![mapping[path]] = cell]
<1>1. matrix[n] \in Seq(CellSet)
    OBVIOUS
<1>2. row \in Seq(CellSet) /\ Len(row) = Len(matrix[n])
    BY <1>1, SetCell
<1>3. matrix' = [matrix EXCEPT ![n] = row]
    BY DEF AddCoverage
<1> HIDE DEF row
<1>4. /\ matrix' \in Seq(Seq(CellSet)) /\ Len(matrix') = n
      /\ \A r \in 1..n : matrix'[r] = IF r = n THEN row ELSE matrix[r]
    BY <1>2, <1>3, ExceptSeq
<1>5. n \in 1..n
    OBVIOUS
<1>6. matrix'[n] = row
    BY <1>4, <1>5
<1> QED BY <1>2, <1>4, <1>6 DEF row

LEMMA TraceTargetStep ==
    ASSUME IInv, TraceTarget
    PROVE  IInv'
<1> DEFINE p == job.policy
           t == CurrentTest
           cell == IF t.target = "Match" THEN "MATCH"
                   ELSE IF t.target = "NoMatch" THEN "NO_MATCH" ELSE "INDETERMINATE"
<1>1. /\ pc = "target" /\ Busy /\ UNCHANGED <<results, mapping, job, mode, test, rule>>
    BY DEF TraceTarget, Busy
<1>2. /\ p \in PolicyRecords /\ Len(matrix) \in Nat \ {0} /\ matrix \in Seq(Seq(CellSet))
      /\ mapping = MappingOf(p) /\ Fits(p, t) /\ test \in Nat
      /\ mode = "runTests" => Len(matrix) = test
    BY <1>1, BusyFacts
<1>3. rule = 0 /\ t.parses
    BY <1>1 DEF IInv, PhaseInv
<1>4. CASE ~Addable(TargetPath) /\ pc' = "aborted" /\ UNCHANGED <<matrix, verdicts>>
    BY <1>1, <1>4, AbortStep
<1>5. ASSUME Addable(TargetPath), AddCoverage(cell, TargetPath),
             IF t.target = "Match" THEN pc' = "rules" /\ UNCHANGED verdicts ELSE Judge(NotApplicable)
      PROVE  IInv'
    <2>1. p.targeted /\ TargetPath \in DOMAIN mapping
        BY <1>2, <1>5, TargetIsKey DEF Addable
    <2>2. cell \in CellSet /\ (cell = "MATCH") = (t.target = "Match")
        BY DEF CellSet
    <2> HIDE DEF cell
    <2>3. /\ matrix' \in Seq(Seq(CellSet)) /\ Len(matrix') = Len(matrix)
          /\ \A r \in 1..Len(matrix) :
                /\ Len(matrix'[r]) = Len(matrix[r])
                /\ r # Len(matrix) => matrix'[r] = matrix[r]
          /\ matrix'[Len(matrix)] = [matrix[Len(matrix)] EXCEPT ![mapping[TargetPath]] = cell]
        BY <1>2, <1>5, <2>2, AddCoverageFacts
    <2>4. mode = "runTests" /\ UniqueIds(p) => SoFar(matrix'[test], p, t, TRUE, 0)
        <3> SUFFICES ASSUME mode = "runTests", UniqueIds(p)
                     PROVE  SoFar(matrix'[test], p, t, TRUE, 0)
            OBVIOUS
        <3>1. SoFar(matrix[test], p, t, FALSE, 0)
            BY <1>1, <1>3 DEF IInv, RowsInv, Suite
        <3>2. mapping[TargetPath] = 1
            <4>1. 1 \in DOMAIN Entries(p) /\ Entries(p)[1] = TargetPath
                <5>1. Len(p.rules) \in Nat /\ DOMAIN Entries(p) = 1..(Len(p.rules) + Offset(p))
                    BY <1>1, <1>2, EntriesFacts, BusyFacts
                <5>2. Offset(p) = 1
                    BY <2>1 DEF Offset
                <5>3. Entries(p)[1] = TargetPath
                    BY <1>2, <2>1, EntriesFacts
                <5> QED BY <5>1, <5>2, <5>3
            <4> QED BY <1>2, <4>1, MappingFacts
        <3>3. matrix'[test] = [matrix[test] EXCEPT ![1] = cell]
            BY <1>2, <2>3, <3>2
        <3>4. p \in PolicyRecords /\ p.targeted /\ t.parses
            BY <1>2, <1>3, <2>1
        <3> HIDE DEF p, t
        <3>5. SoFar([matrix[test] EXCEPT ![1] = cell], p, t, TRUE, 0)
            BY <2>2, <3>1, <3>4, TargetRow
        <3> QED BY <3>3, <3>5
    <2>5. CASE t.target = "Match"
        <3>1. pc' = "rules" /\ verdicts' = verdicts
            BY <1>5, <2>5
        <3>2. JobInv' /\ ResultsInv'
            BY <1>1, <3>1 DEF IInv, JobInv, ResultsInv, Busy
        <3>3. PhaseInv'
            BY <1>1, <1>3, <2>5, <3>1 DEF PhaseInv, Reached, CurrentTest
        <3>4. MatrixInv'
            BY <1>1, <1>2, <2>3, <3>1 DEF IInv, MatrixInv, Busy, Suite
        <3>5. VerdictsInv'
            BY <1>1, <3>1 DEF IInv, VerdictsInv, Busy
        <3>6. RowsInv'
            <4> SUFFICES ASSUME mode = "runTests", UniqueIds(p)
                         PROVE  RowsInv'
                BY <1>1 DEF RowsInv, Suite
            <4>1. \A r \in 1..Len(matrix) : r < test => Described(matrix[r], p, job.tests[r])
                BY <1>1 DEF IInv, RowsInv, Suite
            <4>2. \A r \in 1..Len(matrix) : r < test => Described(matrix'[r], p, job.tests[r])
                BY <1>2, <2>3, <4>1
            <4> QED BY <1>1, <1>3, <2>3, <2>4, <3>1, <4>2 DEF RowsInv, Busy, Suite, CurrentTest
        <3> QED BY <3>2, <3>3, <3>4, <3>5, <3>6 DEF IInv
    <2>6. CASE t.target # "Match"
        <3>1. NotApplicable \in Verdict(p, t)
            <4>1. t.target \in {"NoMatch", "Error"}
                BY <1>2, <2>6 DEF Fits, Tests, MatchResults
            <4> QED BY <1>3, <2>1, <4>1 DEF Verdict, Answers, Promise
        <3>2. mode = "runTests" /\ UniqueIds(p) => Described(matrix'[test], p, t)
            <4> SUFFICES ASSUME mode = "runTests", UniqueIds(p)
                         PROVE  Described(matrix'[test], p, t)
                OBVIOUS
            <4>1. \A l \in 1..Len(p.rules) : ~Reached(p, t, l)
                BY <2>6 DEF Reached
            <4>2. SoFar(matrix'[test], p, t, TRUE, 0) /\ Len(p.rules) \in Nat
                BY <1>1, <2>4, BusyFacts
            <4> HIDE DEF p, t
            <4> QED BY <4>1, <4>2, RowOver, TRUE \in BOOLEAN, 0 \in Nat
        <3>3. Judge(NotApplicable)
            BY <1>5, <2>6
        <3> QED BY <1>1, <2>3, <3>1, <3>2, <3>3, TestOver
    <2> QED BY <2>5, <2>6
<1> QED BY <1>4, <1>5 DEF TraceTarget

\* The loop of the combining algorithm ends on the decision Rule.evaluate gives.
LEMMA EndedAgrees ==
    ASSUME IInv, Busy
    PROVE  Ended <=> /\ rule > 0
                     /\ RuleEvaluate(RulesOn(job.policy, CurrentTest)[rule])
                            \in LoopOf[job.policy.alg].returns
<1>1. rule > 0 => rule \in 1..Len(job.policy.rules)
    BY BusyFacts
<1>2. rule > 0 => RulesOn(job.policy, CurrentTest)[rule] \in Rules
    BY <1>1, BusyFacts, RulesOnType
<1> QED BY <1>2, TracedAgrees DEF Ended

LEMMA TraceRuleStep ==
    ASSUME IInv, TraceRule
    PROVE  IInv'
<1> DEFINE p == job.policy
           t == CurrentTest
           path == RulePath(p, rule + 1)
           traced == TracedEvaluate(RulesOn(p, t)[rule + 1])
           cell == CellOf(RuleEvaluate(RulesOn(p, t)[rule + 1]))
<1>1. /\ pc = "rules" /\ Busy /\ ~Ended /\ rule < Len(p.rules)
      /\ UNCHANGED <<results, mapping, job, mode, test, verdicts>>
    BY DEF TraceRule, Busy
<1>2. /\ p \in PolicyRecords /\ Len(matrix) \in Nat \ {0} /\ matrix \in Seq(Seq(CellSet))
      /\ mapping = MappingOf(p) /\ Fits(p, t) /\ test \in Nat
      /\ mode = "runTests" => Len(matrix) = test
      /\ rule \in Nat /\ Len(p.rules) \in Nat /\ rule + 1 \in 1..Len(p.rules)
    BY <1>1, BusyFacts
<1>3. CASE ~Addable(path) /\ pc' = "aborted" /\ UNCHANGED <<matrix, rule>>
    BY <1>1, <1>3, AbortStep
<1>4. ASSUME AddCoverage(traced.cell, path), rule' = rule + 1, UNCHANGED pc
      PROVE  IInv'
    <2>1. traced.cell = cell /\ cell \in CellSet
        <3>1. RulesOn(p, t)[rule + 1] \in Rules
            BY <1>2, RulesOnType
        <3> QED BY <3>1, TracedAgrees DEF CellOf, CellSet
    <2>2. Reached(p, t, rule + 1)
        <3>1. Reached(p, t, rule)
            BY <1>1 DEF IInv, PhaseInv
        <3>2. rule > 0 => RuleEvaluate(RulesOn(p, t)[rule]) \notin LoopOf[p.alg].returns
            BY <1>1, EndedAgrees
        <3>3. \A l \in 1..((rule + 1) - 1) : l \in 1..(rule - 1) \/ (l = rule /\ rule > 0)
            BY <1>2
        <3> HIDE DEF p, t
        <3> QED BY <3>1, <3>2, <3>3 DEF Reached
    <2>3. AddCoverage(cell, path)
        BY <1>4, <2>1
    <2> HIDE DEF cell, traced
    <2>4. /\ matrix' \in Seq(Seq(CellSet)) /\ Len(matrix') = Len(matrix)
          /\ \A r \in 1..Len(matrix) :
                /\ Len(matrix'[r]) = Len(matrix[r])
                /\ r # Len(matrix) => matrix'[r] = matrix[r]
          /\ matrix'[Len(matrix)] = [matrix[Len(matrix)] EXCEPT ![mapping[path]] = cell]
        BY <1>2, <2>1, <2>3, AddCoverageFacts
    <2>5. JobInv' /\ ResultsInv'
        BY <1>1, <1>2, <1>4 DEF IInv, JobInv, ResultsInv, Busy
    <2>6. PhaseInv'
        <3>1. test' = test /\ job' = job /\ pc' = "rules" /\ rule' = rule + 1
            BY <1>1, <1>4
        <3> QED BY <2>2, <3>1 DEF PhaseInv, Reached, CurrentTest
    <2>7. MatrixInv'
        BY <1>1, <1>2, <1>4, <2>4 DEF IInv, MatrixInv, Busy, Suite
    <2>8. VerdictsInv'
        BY <1>1, <1>4 DEF IInv, VerdictsInv, Busy
    <2>9. RowsInv'
        <3> SUFFICES ASSUME mode = "runTests", UniqueIds(p)
                     PROVE  RowsInv'
            BY <1>1 DEF RowsInv, Suite
        <3>1. /\ \A r \in 1..Len(matrix) : r < test => Described(matrix[r], p, job.tests[r])
              /\ SoFar(matrix[test], p, t, TRUE, rule)
            BY <1>1 DEF IInv, RowsInv, Suite
        <3>2. \A r \in 1..Len(matrix) : r < test => Described(matrix'[r], p, job.tests[r])
            BY <1>2, <2>4, <3>1
        <3>3. mapping[path] = RuleEntry(p, rule + 1)
            BY <1>2, EntriesFacts, MappingFacts
        <3>4. matrix'[test] = [matrix[test] EXCEPT ![RuleEntry(p, rule + 1)] = cell]
            BY <1>2, <2>4, <3>3
        <3>5. SoFar(matrix'[test], p, t, TRUE, rule + 1)
            <4>1. p \in PolicyRecords /\ rule \in Nat /\ rule < Len(p.rules)
                BY <1>1, <1>2
            <4> HIDE DEF p, t, path
            <4>2. SoFar([matrix[test] EXCEPT ![RuleEntry(p, rule + 1)] = cell], p, t, TRUE, rule + 1)
                BY <2>2, <3>1, <4>1, RuleRow DEF cell
            <4> QED BY <3>4, <4>2
        <3> QED BY <1>1, <1>4, <2>4, <3>2, <3>5 DEF RowsInv, Busy, Suite, CurrentTest
    <2> QED BY <2>5, <2>6, <2>7, <2>8, <2>9 DEF IInv
<1> QED BY <1>3, <1>4 DEF TraceRule

LEMMA AnswerTestStep ==
    ASSUME IInv, AnswerTest
    PROVE  IInv'
<1> DEFINE p == job.policy
           t == CurrentTest
<1>1. /\ pc = "rules" /\ Busy /\ (rule = Len(p.rules) \/ Ended)
      /\ UNCHANGED <<matrix, results, mapping, job, mode, test, rule>>
    BY DEF AnswerTest, Busy
<1>2. PICK response \in Answers(p, t) : Judge(response)
    BY DEF AnswerTest
<1>3. response \in Verdict(p, t)
    BY <1>1, <1>2 DEF IInv, PhaseInv, Verdict
<1>4. rule \in Nat /\ Len(p.rules) \in Nat /\ matrix \in Seq(Seq(CellSet))
    BY <1>1, BusyFacts
<1>5. \A l \in 1..Len(p.rules) : l > rule => ~Reached(p, t, l)
    <2> SUFFICES ASSUME NEW l \in 1..Len(p.rules), l > rule
                 PROVE  ~Reached(p, t, l)
        OBVIOUS
    <2>1. rule > 0 /\ RuleEvaluate(RulesOn(p, t)[rule]) \in LoopOf[p.alg].returns
        BY <1>1, <1>4, EndedAgrees
    <2>2. rule \in 1..(l - 1)
        BY <1>4, <2>1
    <2> HIDE DEF p, t
    <2> QED BY <2>1, <2>2 DEF Reached
<1>6. mode = "runTests" /\ UniqueIds(p) => Described(matrix'[test], p, t)
    <2> SUFFICES ASSUME mode = "runTests", UniqueIds(p)
                 PROVE  Described(matrix'[test], p, t)
        OBVIOUS
    <2>1. SoFar(matrix[test], p, t, TRUE, rule) /\ matrix' = matrix
        BY <1>1 DEF IInv, RowsInv, Suite
    <2> HIDE DEF p, t
    <2> QED BY <1>4, <1>5, <2>1, RowOver, TRUE \in BOOLEAN
<1> QED BY <1>1, <1>2, <1>3, <1>4, <1>6, TestOver

LEMMA FinishStep ==
    ASSUME IInv, Finish
    PROVE  IInv'
<1>1. /\ pc = "test" /\ test = Planned /\ pc' = "returned"
      /\ UNCHANGED <<matrix, mapping, job, mode, test, rule, verdicts>>
      /\ mode = "runTests" => results' = verdicts
    BY DEF Finish
<1>2. job \in Jobs /\ Len(job.tests) \in Nat \ {0}
    BY JobFacts DEF IInv, JobInv
<1>3. mode # "runTestWithoutOracle" => test = Len(job.tests) /\ Len(verdicts) = test
    BY <1>1 DEF Planned, IInv, VerdictsInv
<1>4. JobInv' /\ PhaseInv' /\ ResultsInv'
    BY <1>1, <1>3 DEF IInv, JobInv, PhaseInv, ResultsInv, Busy
<1>5. MatrixInv'
    BY <1>1 DEF IInv, MatrixInv, Busy, Suite
<1>6. VerdictsInv'
    <2>1. mode = "isKilled" =>
             /\ verdicts # <<>>
             /\ \A v \in 1..(Len(verdicts) - 1) : verdicts[v]
             /\ Len(verdicts) = Len(job.tests)
        BY <1>1, <1>2, <1>3 DEF IInv, VerdictsInv
    <2> QED BY <1>1, <2>1 DEF IInv, VerdictsInv, Busy
<1>7. RowsInv'
    BY <1>1 DEF IInv, RowsInv, Busy, Suite
<1> QED BY <1>4, <1>5, <1>6, <1>7 DEF IInv

LEMMA StutterStep ==
    ASSUME IInv, UNCHANGED vars
    PROVE  IInv'
<1> USE DEF vars
<1>1. JobInv' /\ PhaseInv' /\ ResultsInv'
    BY DEF IInv, JobInv, PhaseInv, ResultsInv, Busy, CurrentTest
<1>2. MatrixInv' /\ VerdictsInv'
    BY DEF IInv, MatrixInv, VerdictsInv, Busy, Suite
<1>3. RowsInv'
    BY DEF IInv, RowsInv, Busy, Suite, CurrentTest
<1> QED BY <1>1, <1>2, <1>3 DEF IInv

LEMMA StepIInv == IInv /\ [Next]_vars => IInv'
<1> SUFFICES ASSUME IInv, [Next]_vars PROVE IInv'
    OBVIOUS
<1>1. ASSUME NEW j \in Jobs, NEW m \in Modes, Begin(j, m) PROVE IInv'
    BY <1>1, BeginStep
<1>2. CASE StartTest
    BY <1>2, StartTestStep
<1>3. CASE ParseRequest
    BY <1>3, ParseRequestStep
<1>4. CASE TraceTarget
    BY <1>4, TraceTargetStep
<1>5. CASE TraceRule
    BY <1>5, TraceRuleStep
<1>6. CASE AnswerTest
    BY <1>6, AnswerTestStep
<1>7. CASE Finish
    BY <1>7, FinishStep
<1>8. CASE UNCHANGED vars
    BY <1>8, StutterStep
<1> QED BY <1>1, <1>2, <1>3, <1>4, <1>5, <1>6, <1>7, <1>8 DEF Next, Step

\* Whatever operations are run, the parts of the static state stay related as
\* IInv says.
THEOREM InvariantHolds == Spec => []IInv
BY InitIInv, StepIInv, PTL DEF Spec

-----------------------------------------------------------------------------
(* What the readers of the static state rely on.                           *)

\* The state of a run has its types: rows fit the mapping they are read with.
THEOREM TypesHold == Spec => []TypeOK
<1>1. IInv => TypeOK
    <2> SUFFICES ASSUME IInv PROVE TypeOK
        OBVIOUS
    <2>1. job \in JobRecords
        BY JobFacts DEF IInv, JobInv
    <2>2. \A r \in DOMAIN matrix :
             /\ Len(matrix[r]) = Cardinality(DOMAIN mapping)
             /\ \A e \in DOMAIN matrix[r] : matrix[r][e] \in CellSet
        <3>1. DOMAIN matrix = 1..Len(matrix) /\ \A r \in DOMAIN matrix : matrix[r] \in Seq(CellSet)
            BY DEF IInv, MatrixInv
        <3>2. \A r \in DOMAIN matrix : \A e \in DOMAIN matrix[r] : matrix[r][e] \in CellSet
            BY <3>1
        <3> QED BY <3>1, <3>2 DEF IInv, MatrixInv
    <2>3. (\A v \in DOMAIN verdicts : verdicts[v] \in BOOLEAN) /\ Len(verdicts) <= test
        BY DEF IInv, VerdictsInv
    <2> QED BY <2>1, <2>2, <2>3 DEF IInv, JobInv, TypeOK, CellSet
<1> QED BY <1>1, InvariantHolds, PTL

\* The aspect's copy of Rule.evaluate decides as the original does on every
\* rule a test meets.
THEOREM TracingFaithful == Spec => []TracingIsFaithful
<1>1. IInv => TracingIsFaithful
    <2> SUFFICES ASSUME IInv, pc = "rules", NEW k \in 1..Len(job.policy.rules)
                 PROVE  LET r == RulesOn(job.policy, CurrentTest)[k]
                            traced == TracedEvaluate(r)
                        IN  /\ traced.value = RuleEvaluate(r)
                            /\ traced.cell = IF RuleEvaluate(r) \in Effects THEN "EFFECT"
                                             ELSE IF RuleEvaluate(r) = NotApplicable THEN "NA"
                                             ELSE "RULE_INDETERMINATE"
        BY DEF TracingIsFaithful
    <2>1. RulesOn(job.policy, CurrentTest)[k] \in Rules
        BY BusyFacts, RulesOnType DEF Busy
    <2> QED BY <2>1, TracedAgrees DEF CellOf
<1> QED BY <1>1, InvariantHolds, PTL

\* When a suite has returned, the static matrix and results describe it row by
\* row and verdict by verdict, whatever ran before it.
THEOREM MatrixDescribes == Spec => []MatrixDescribesSuite
<1>1. IInv => MatrixDescribesSuite
    <2> SUFFICES ASSUME IInv, pc = "returned", mode = "runTests"
                 PROVE  MatrixDescribesSuite
        BY DEF MatrixDescribesSuite
    <2>1. /\ results = verdicts /\ test = Len(job.tests) /\ Len(verdicts) = test
          /\ Len(matrix) = test
        BY DEF IInv, ResultsInv, VerdictsInv, MatrixInv, Suite
    <2>2. job \in Jobs /\ job.policy \in PolicyRecords /\ DOMAIN job.tests = 1..test
        BY <2>1, JobFacts DEF IInv, JobInv
    <2>3. ASSUME NEW t \in DOMAIN job.tests
          PROVE  LET possible == Verdict(job.policy, job.tests[t])
                 IN  /\ results[t] => job.tests[t].oracle \in possible
                     /\ ~results[t] => possible # {job.tests[t].oracle}
        <3>1. Judged(verdicts[t], job.policy, job.tests[t])
            BY <2>1, <2>2 DEF IInv, VerdictsInv
        <3> QED BY <2>1, <3>1 DEF Judged
    <2>4. ASSUME UniqueIds(job.policy), NEW t \in DOMAIN job.tests
          PROVE  RowDescribesTest(matrix[t], job.policy, job.tests[t])
        <3>1. Described(matrix[t], job.policy, job.tests[t])
            BY <2>1, <2>2, <2>4 DEF IInv, RowsInv, Suite, Busy
        <3> QED BY <2>2, <3>1, DescribedRow
    <2> QED BY <2>1, <2>3, <2>4 DEF MatrixDescribesSuite
<1> QED BY <1>1, InvariantHolds, PTL

\* A mutant is killed by its first failing test.
THEOREM KilledByFirst == Spec => []KilledByFirstFailure
<1>1. IInv => KilledByFirstFailure
    <2> SUFFICES ASSUME IInv, pc = "returned", mode = "isKilled"
                 PROVE  KilledByFirstFailure
        BY DEF KilledByFirstFailure
    <2>1. /\ \A t \in 1..(Len(verdicts) - 1) : verdicts[t]
          /\ verdicts[Len(verdicts)] => Len(verdicts) = Len(job.tests)
          /\ DOMAIN verdicts = 1..Len(verdicts)
          /\ \A t \in DOMAIN verdicts : Judged(verdicts[t], job.policy, job.tests[t])
        BY DEF IInv, VerdictsInv
    <2> QED BY <2>1 DEF KilledByFirstFailure, Judged
<1> QED BY <1>1, InvariantHolds, PTL

\* Only a suite that returns publishes results, one for each row.
THEOREM ResultsPublished == Spec => ResultsOfSuitesOnly
<1>1. IInv /\ [Next]_vars =>
         [results' # results =>
             mode = "runTests" /\ pc' = "returned" /\ Len(results') = Len(matrix)]_vars
    <2> SUFFICES ASSUME IInv, Next, results' # results
                 PROVE  mode = "runTests" /\ pc' = "returned" /\ Len(results') = Len(matrix)
        OBVIOUS
    <2>1. Finish
        BY DEF Next, Step, Begin, static, StartTest, ParseRequest, TraceTarget, TraceRule, AnswerTest
    <2>2. mode = "runTests" /\ pc = "test" /\ pc' = "returned" /\ results' = verdicts
        BY <2>1 DEF Finish
    <2>3. Len(verdicts) = test /\ Len(matrix) = test
        BY <2>2 DEF IInv, VerdictsInv, MatrixInv, Suite
    <2> QED BY <2>2, <2>3
<1> QED BY <1>1, InvariantHolds, PTL DEF Spec, ResultsOfSuitesOnly

=============================================================================
