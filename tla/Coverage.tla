------------------------------ MODULE Coverage ------------------------------
(***************************************************************************)
(* Running a test suite on a policy under the aspect SematicPolicyTracer.  *)
(* The aspect puts a traced evaluation in the place of Rule.evaluate and   *)
(* fills the static fields of PolicyCoverageFactory as the policy is       *)
(* evaluated; their readers (fault localization, repair, the coverage      *)
(* display) come later and trust them to describe the run they follow.     *)
(*                                                                         *)
(* Three operations write the fields: TestSuite.runTests, TestSuite.       *)
(* isKilled and TestSuite.runTestWithoutOracle.  The policy is one Policy  *)
(* with rules.  The combining algorithm is taken by its promise            *)
(* (CombiningPromise) and by the decisions that end its loop.                 *)
(***************************************************************************)
EXTENDS CombiningAlgs, CombiningPromise

CONSTANTS
    Jobs,    \* the policies and test suites: records of the set JobRecords
    RuleIds  \* the RuleId attributes

\* A policy: whether it has a Target element, and its rules in order.
RuleDecls == [id : RuleIds, version : {"2.0", "3.0"}, effect : Effects]
PolicyRecords == [alg : RuleAlgs, targeted : BOOLEAN, rules : Seq(RuleDecls)]

\* A test: whether the request parses, what the policy's target and each
\* rule's target and condition evaluate to on it, and the expected decision.
Tests == [parses : BOOLEAN, target : MatchResults,
          outcomes : Seq([target : TargetResults, condition : ConditionResults]),
          oracle : Decisions]
JobRecords == [policy : PolicyRecords, tests : Seq(Tests)]

ASSUME JobsAssumption ==
    \A job \in Jobs :
        /\ job \in JobRecords
        /\ Len(job.tests) > 0
        /\ \A t \in DOMAIN job.tests : Len(job.tests[t].outcomes) = Len(job.policy.rules)

\* An xpath that ends in a rule's RuleId is not the one of a Target element.
TargetPath == "Target"
ASSUME PathsAssumption == TargetPath \notin RuleIds

Modes == {"runTests", "isKilled", "runTestWithoutOracle"}

VARIABLES
    matrix,    \* PolicyCoverageFactory.coverageMatrix
    results,   \* PolicyCoverageFactory.results, empty for null
    mapping,   \* PolicyCoverageFactory.mapping: an entry's index
    job,       \* the policy and tests of the operation under way or just over
    mode,      \* which operation it is
    pc,        \* "idle", "test", "parse", "target", "rules", "returned", "aborted"
    test,      \* how many tests have been started
    rule,      \* how many rules of the policy have been evaluated
    verdicts   \* the local list of runTests; for isKilled the tests passed

static == <<matrix, results, mapping>>
vars == <<matrix, results, mapping, job, mode, pc, test, rule, verdicts>>

-----------------------------------------------------------------------------
(* Entries: the xpaths of a policy's target and rules, in document order.  *)

RulePath(policy, k) == policy.rules[k].id

Entries(policy) ==
    (IF policy.targeted THEN <<TargetPath>> ELSE <<>>)
        \o [k \in 1..Len(policy.rules) |-> RulePath(policy, k)]

\* A map from xpath to index: an entry with the same xpath as a later one is
\* overwritten.
MappingOf(policy) ==
    LET entries == Entries(policy)
    IN  [path \in {entries[e] : e \in DOMAIN entries} |->
            CHOOSE e \in DOMAIN entries :
                entries[e] = path /\ \A later \in DOMAIN entries : entries[later] = path => later <= e]

\* Mutant of Placeholders: as many cells as entries.
PlaceholdersPerEntry(map) == [e \in 1..Len(Entries(job.policy)) |-> "NO_MATCH"]

\* newRow: one placeholder for each key of the map.
Placeholders(map) == [e \in 1..Cardinality(DOMAIN map) |-> "NO_MATCH"]

\* addCoverage: unboxing the index of an unknown xpath and setting a cell
\* beyond the row both throw.
Addable(path) ==
    path \in DOMAIN mapping /\ mapping[path] <= Len(matrix[Len(matrix)])

\* Mutant of AddCoverage: the first row instead of the last.
AddToFirstRow(cell, path) ==
    matrix' = [matrix EXCEPT ![1][mapping[path]] = cell]

AddCoverage(cell, path) ==
    matrix' = [matrix EXCEPT ![Len(matrix)][mapping[path]] = cell]

-----------------------------------------------------------------------------
(* The traced evaluation of a rule: the aspect's copy of Rule.evaluate,    *)
(* with the coverage it records.                                           *)

\* RuleCoverage: from what was seen of target and condition to the cell.
RuleCell(target, condition) ==
    IF target \in {"TRUE", "EMPTY"} /\ condition \in {"TRUE", "EMPTY"} THEN "EFFECT"
    ELSE IF target = "FALSE" \/ condition = "FALSE" THEN "NA"
    ELSE "RULE_INDETERMINATE"

Extend(r) ==
    IF r.version = "3.0"
    THEN IF r.effect = Permit THEN "IndeterminateP" ELSE "IndeterminateD"
    ELSE "Indeterminate"

Traced(value, target, condition) == [value |-> value, cell |-> RuleCell(target, condition)]

\* Mutant of TracedEvaluate: without a condition the rule counts as touched
\* before its target is looked at.
TracedConditionFirst(r) ==
    IF r.condition = "none" THEN Traced(r.effect, "TRUE", "EMPTY")
    ELSE IF r.target = "NoMatch" THEN Traced(NotApplicable, "FALSE", "NOT_EVALUATED")
    ELSE IF r.target = "Error" THEN Traced(Extend(r), "ERROR", "NOT_EVALUATED")
    ELSE IF r.condition = "Error" THEN Traced(Extend(r), "TRUE", "ERROR")
    ELSE IF r.condition = "True" THEN Traced(r.effect, "TRUE", "TRUE")
    ELSE Traced(NotApplicable, "TRUE", "FALSE")

TracedEvaluate(r) ==
    IF r.target = "NoMatch" THEN Traced(NotApplicable, "FALSE", "NOT_EVALUATED")
    ELSE IF r.target = "Error" THEN Traced(Extend(r), "ERROR", "NOT_EVALUATED")
    ELSE IF r.condition = "none" THEN Traced(r.effect, "TRUE", "EMPTY")
    ELSE IF r.condition = "Error" THEN Traced(Extend(r), "TRUE", "ERROR")
    ELSE IF r.condition = "True" THEN Traced(r.effect, "TRUE", "TRUE")
    ELSE Traced(NotApplicable, "TRUE", "FALSE")

-----------------------------------------------------------------------------
\* The rules of policy p as test t meets them.
RulesOn(p, t) ==
    [k \in 1..Len(p.rules) |->
        [version |-> p.rules[k].version, effect |-> p.rules[k].effect,
         target |-> t.outcomes[k].target, condition |-> t.outcomes[k].condition]]

\* What policy p may answer to test t, by the promise of its algorithm.
Answers(p, t) ==
    Promise([alg |-> p.alg, kids |-> RulesOn(p, t), fulfilOn |-> {},
             target |-> IF p.targeted THEN t.target ELSE "none"])

Init ==
    /\ matrix = <<>> /\ results = <<>> /\ mapping = <<>>
    /\ job \in Jobs /\ mode = "runTests" /\ pc = "idle"
    /\ test = 0 /\ rule = 0 /\ verdicts = <<>>

Ready == pc \in {"idle", "returned", "aborted"}

\* PolicyCoverageFactory.init: a new matrix and mapping for the policy.
InitCoverage(policy) == mapping' = MappingOf(policy)

\* The advice before runTests; isKilled and runTestWithoutOracle start with
\* their first test.
Begin(j, m) ==
    /\ Ready
    /\ job' = j /\ mode' = m
    /\ pc' = "test"
    /\ test' = 0 /\ rule' = 0 /\ verdicts' = <<>>
    /\ IF m = "runTests"
       THEN matrix' = <<>> /\ InitCoverage(j.policy) /\ UNCHANGED results
       ELSE UNCHANGED static

CurrentTest == job.tests[test]

\* The response of PolicyRunner.evaluate to a request that does not parse.
MaxValue == "Integer.MAX_VALUE"

\* Mutant of Judge: no break.
JudgeWithoutBreak(response) ==
    /\ verdicts' = IF mode = "runTestWithoutOracle" THEN verdicts
                   ELSE Append(verdicts, response = CurrentTest.oracle)
    /\ pc' = "test"

\* The comparison with the oracle: isKilled breaks at the first difference.
Judge(response) ==
    /\ verdicts' = IF mode = "runTestWithoutOracle" THEN verdicts
                   ELSE Append(verdicts, response = CurrentTest.oracle)
    /\ pc' = IF mode = "isKilled" /\ response # CurrentTest.oracle THEN "returned" ELSE "test"

\* How many tests the operation runs.
Planned == IF mode = "runTestWithoutOracle" THEN 1 ELSE Len(job.tests)

\* The advice before a test: a new row, in a new matrix when there is no suite.
StartTest ==
    /\ pc = "test" /\ test < Planned
    /\ test' = test + 1
    /\ rule' = 0
    /\ pc' = "parse"
    /\ IF mode = "runTests"
       THEN matrix' = Append(matrix, Placeholders(mapping)) /\ UNCHANGED mapping
       ELSE matrix' = <<Placeholders(MappingOf(job.policy))>> /\ InitCoverage(job.policy)
    /\ UNCHANGED <<results, job, mode, verdicts>>

\* PolicyRunner.evaluate turns the exception for a request that does not
\* parse into a response; isKilled lets it pass.
ParseRequest ==
    /\ pc = "parse"
    /\ \/ CurrentTest.parses /\ pc' = "target" /\ UNCHANGED verdicts
       \/ ~CurrentTest.parses /\ mode = "isKilled" /\ pc' = "aborted" /\ UNCHANGED verdicts
       \/ ~CurrentTest.parses /\ mode # "isKilled" /\ Judge(MaxValue)
    /\ UNCHANGED <<matrix, results, mapping, job, mode, test, rule>>

\* The advice before AbstractPolicy.evaluate, then the policy's own check of
\* its target.
TraceTarget ==
    /\ pc = "target"
    /\ \/ ~Addable(TargetPath) /\ pc' = "aborted" /\ UNCHANGED <<matrix, verdicts>>
       \/ /\ Addable(TargetPath)
          /\ AddCoverage(IF CurrentTest.target = "Match" THEN "MATCH"
                         ELSE IF CurrentTest.target = "NoMatch" THEN "NO_MATCH"
                         ELSE "INDETERMINATE", TargetPath)
          /\ IF CurrentTest.target = "Match"
             THEN pc' = "rules" /\ UNCHANGED verdicts
             ELSE Judge(NotApplicable)
    /\ UNCHANGED <<results, mapping, job, mode, test, rule>>

\* The decision of the last rule ended the loop of the combining algorithm.
Ended ==
    /\ rule > 0
    /\ TracedEvaluate(RulesOn(job.policy, CurrentTest)[rule]).value
           \in LoopOf[job.policy.alg].returns

\* One round of the combining algorithm's loop, with the advice around
\* Rule.evaluate.
TraceRule ==
    /\ pc = "rules" /\ rule < Len(job.policy.rules) /\ ~Ended
    /\ LET path == RulePath(job.policy, rule + 1)
           traced == TracedEvaluate(RulesOn(job.policy, CurrentTest)[rule + 1])
       IN  \/ ~Addable(path) /\ pc' = "aborted" /\ UNCHANGED <<matrix, rule>>
           \/ /\ Addable(path)
              /\ AddCoverage(traced.cell, path)
              /\ rule' = rule + 1
              /\ UNCHANGED pc
    /\ UNCHANGED <<results, mapping, job, mode, test, verdicts>>

\* The combining algorithm answers.
AnswerTest ==
    /\ pc = "rules" /\ (rule = Len(job.policy.rules) \/ Ended)
    /\ \E response \in Answers(job.policy, CurrentTest) : Judge(response)
    /\ UNCHANGED <<matrix, results, mapping, job, mode, test, rule>>

\* Mutant of Finish: the results are published by isKilled too.
PublishAlways ==
    /\ pc = "test" /\ test = Planned
    /\ pc' = "returned"
    /\ results' = verdicts
    /\ UNCHANGED <<matrix, mapping, job, mode, test, rule, verdicts>>

\* The operation returns; the advice after runTests publishes the results.
Finish ==
    /\ pc = "test" /\ test = Planned
    /\ pc' = "returned"
    /\ IF mode = "runTests" THEN results' = verdicts ELSE UNCHANGED results
    /\ UNCHANGED <<matrix, mapping, job, mode, test, rule, verdicts>>

Step == StartTest \/ ParseRequest \/ TraceTarget \/ TraceRule \/ AnswerTest \/ Finish

Next == (\E j \in Jobs, m \in Modes : Begin(j, m)) \/ Step

Spec == Init /\ [][Next]_vars

-----------------------------------------------------------------------------
(* Properties.                                                             *)

Verdict(p, t) == IF t.parses THEN Answers(p, t) ELSE {MaxValue}

\* The state of a run has its types: no row is longer than the mapping, and a
\* verdict is kept for at most the tests started.
TypeOK ==
    /\ job \in JobRecords /\ mode \in Modes
    /\ pc \in {"idle", "test", "parse", "target", "rules", "returned", "aborted"}
    /\ test \in 0..Len(job.tests) /\ rule \in 0..Len(job.policy.rules)
    /\ \A r \in DOMAIN matrix :
          /\ Len(matrix[r]) = Cardinality(DOMAIN mapping)
          /\ \A e \in DOMAIN matrix[r] :
                matrix[r][e] \in {"MATCH", "NO_MATCH", "INDETERMINATE",
                                 "EFFECT", "NA", "RULE_INDETERMINATE"}
    /\ \A v \in DOMAIN verdicts : verdicts[v] \in BOOLEAN
    /\ Len(verdicts) <= test

\* The aspect answers for a rule what Rule.evaluate answers, and records
\* EFFECT, NA or an error for it exactly when that is the answer, whatever
\* the state of target and condition: instrumenting changes no decision.
TracingIsFaithful ==
    pc = "rules" => \A k \in 1..Len(job.policy.rules) :
        LET r == RulesOn(job.policy, CurrentTest)[k]
            traced == TracedEvaluate(r)
        IN  /\ traced.value = RuleEvaluate(r)
            /\ traced.cell = IF RuleEvaluate(r) \in Effects THEN "EFFECT"
                             ELSE IF RuleEvaluate(r) = NotApplicable THEN "NA"
                             ELSE "RULE_INDETERMINATE"

UniqueIds(p) == \A k, l \in DOMAIN p.rules : p.rules[k].id = p.rules[l].id => k = l

\* Rule k of policy p is evaluated in test t: the target matches and no rule
\* before it ended the loop.
Reached(p, t, k) ==
    /\ t.parses /\ t.target = "Match"
    /\ \A l \in 1..(k - 1) : RuleEvaluate(RulesOn(p, t)[l]) \notin LoopOf[p.alg].returns

\* What row t of the matrix has to say of rule k.
Expected(p, t, k) ==
    LET value == RuleEvaluate(RulesOn(p, t)[k])
    IN  IF ~Reached(p, t, k) THEN "NO_MATCH"
        ELSE IF value \in Effects THEN "EFFECT"
        ELSE IF value = NotApplicable THEN "NA" ELSE "RULE_INDETERMINATE"

\* When runTests has returned, the static matrix and results are what a reader
\* takes them for: one row and one verdict for each test, in order.  A row
\* marks exactly the rules its own test reached, at the index of their xpath,
\* with nothing left over from an earlier test or suite.  A verdict is TRUE
\* only for a decision the policy may give on that test's request, FALSE only
\* if it may give another; a request that does not parse is a failed test and
\* not one that is left out.
RowDescribesTest(row, p, made) ==
    LET entries == Entries(p)
    IN  /\ Len(row) = Len(entries)
        /\ \A e \in DOMAIN entries :
              IF entries[e] = TargetPath
              THEN (row[e] = "MATCH") = (made.parses /\ made.target = "Match")
              ELSE row[e] = Expected(p, made, e - (Len(entries) - Len(p.rules)))
MatrixDescribesSuite ==
    pc = "returned" /\ mode = "runTests" =>
        /\ Len(results) = Len(job.tests)
        /\ \A t \in DOMAIN job.tests :
              LET possible == Verdict(job.policy, job.tests[t])
              IN  /\ results[t] => job.tests[t].oracle \in possible
                  /\ ~results[t] => possible # {job.tests[t].oracle}
        /\ UniqueIds(job.policy) =>
              /\ Len(matrix) = Len(job.tests)
              /\ \A t \in DOMAIN job.tests : RowDescribesTest(matrix[t], job.policy, job.tests[t])

\* isKilled and runTests judge a mutant alike: it is killed iff a test fails,
\* and every test before the one that kills it passes.
KilledByFirstFailure ==
    pc = "returned" /\ mode = "isKilled" =>
        /\ \A t \in 1..(Len(verdicts) - 1) : verdicts[t]
        /\ verdicts[Len(verdicts)] => Len(verdicts) = Len(job.tests)
        /\ \A t \in DOMAIN verdicts :
              LET possible == Verdict(job.policy, job.tests[t])
              IN  IF verdicts[t] THEN job.tests[t].oracle \in possible
                  ELSE possible # {job.tests[t].oracle}

\* Only runTests publishes results, and only when it has returned: a probe, a
\* mutant's kill check or a suite that an exception ends leaves them alone.
ResultsOfSuitesOnly ==
    [][results' # results =>
          mode = "runTests" /\ pc' = "returned" /\ Len(results') = Len(matrix)]_vars

=============================================================================
