# TLA+ models of XPA

XPA is a workbench for XACML policies: it evaluates them with a modified copy
of the Balana PDP, runs test suites on them under an AspectJ tracer, localizes
faults from the coverage of those runs, generates mutants, and repairs a policy
by searching the mutants of mutants for one that passes its tests.  Its test
generators ask a string solver, Z3-str, which is in the repository: a plug-in
for the Z3 prover.  This directory models the parts of both that carry their
logic, checks them with TLC and proves their main invariants with TLAPS.

## 1. The system

Paths below are relative to `src/src/main/java/org/`, those of the string solver
to `src/Z3-str/`.

| Part | State | Operations | Modelled in |
|---|---|---|---|
| Targets and rules (`wso2/balana/Rule.java`, `TargetMatch.java`, `xacml3/Target.java`, `AnyOfSelection`, `AllOfSelection`) | none while evaluating | `match`, `evaluate` | `Evaluation` |
| Combining (`wso2/balana/AbstractPolicy.java`, `combine/xacml2`, `combine/xacml3`) | locals of one call: flags, first errors, gathered obligations | `evaluate`, `match`, 15 `combine` methods | `CombiningAlgs`, `Combining`, `CombiningPromise`, `CombiningSpec` |
| Test runs and tracing (`seal/xacml/semanticCoverage`) | static `coverageMatrix`, `results`, `mapping` | `runTests`, `isKilled`, `runTestWithoutOracle`, the advice around them | `Coverage` |
| Fault localization (`seal/xacml/semanticFaultLocalization`) | matrix and verdicts (copies), scores, ranked list | 14 scoring methods, sort, `rankSuspicion` | `Spectrum`, `Diagnosis` |
| Repair (`seal/xacml/semanticRepair`) | priority queue of `MutantNode`s with cached test results | `repair`, `repairWithSelectedMutantMethods` | `RepairProblem`, `Repair`, `RepairSpec` |
| Mutation operators (`seal/xacml/semanticMutation/Mutator.java`) | one shared DOM document per `Mutator`, files of mutants | `create...Mutants`, `generateSelectedMutantsAndSave`, second order | `MutationOperators`, `Mutation` |
| Workbench (`seal/xacml/gui`, `xpa`) | working policy, test table | menu operations, one at a time on the Swing thread | planned |
| Test generators (`seal/xacml/coverage`, `seal/xacml/mutation`) | sets of requests, killed mutants | constraint building, solving, filtering | planned in part |
| String solver: reductions (`strAstReduce.cpp`, `strRegex.cpp`) | none, but for the RegexIn already met | `cb_reduce_app`, one `reduce_...` per function | `StringFunctions`, `RegexFunctions` |
| String solver: containment (`strTheory.cpp`) | `containPairBoolMap`, `regexInBoolMap`, the core's classes | `cb_new_eq` with `checkContainInNewEq`, `checkRegexIn` | `Containment` |
| String solver: word equations (`strArgmt.cpp`) | `varForBreakConcat`, `cut_VARMap`, `sLevel` | `simplifyConcatEq`, `processConcatEqType_1` to `_6`, `solve_concat_eq_str`, `cb_push`, `cb_pop` | `Splitting`, `Cuts` |
| String solver: free variables (`strTheory.cpp`) | `fvarLenTesterMap`, `fvarValueTesterMap`, `valRangeMap` | `freeVarAttempt`, `moreValueTests`, `cb_final_check` | `Search` |
| String solver: Z3 core (`z3/`) | classes, scopes, lemmas | decide, propagate, backtrack, restart | external, as the plug-in uses it |
| Solver pipeline (`utils/Z3StrUtil`, `helpers/Z3StrExpressionHelper`) | files | run Z3-str, parse its output | not modelled: I/O |
| MC/DC analysis (`seal/mcdc`, `seal/coverage`) | none | Boolean expression analysis | not modelled (legacy) |
| PDP front end, finders, attributes, functions (`wso2/balana`) | policy stores | request parsing, lookup, data types | not modelled: library, I/O |
| Legacy packages (`faultlocalization`, `repair`, `combiningalgorithms`), policy editor (`org/umu`) | - | - | not modelled |

**How the parts interact.**  Everything runs on one thread; what couples the
parts is static state.  A test suite calls `policy.evaluate` for each request;
the aspect `SematicPolicyTracer` replaces `Rule.evaluate` inside that call by
its own copy, and puts what it sees into the static fields of
`PolicyCoverageFactory`.  Nobody is handed that matrix: the localizer, the
coverage display and `MutantNode.getSuspicionRank` read the static fields later
and trust that they still describe the run they mean.  `Repairer` interleaves
running suites (which overwrite the fields), diagnosing (which reads them) and
expanding nodes.  `Mutator` makes all mutants of a policy from one document,
which every method changes, loads and restores; saved mutants live on only as
files, under names made from the mutation that produced them.

In the string solver everything runs on one thread too, and the order is the
core's.  Z3's core decides equations one by one, calls `cb_new_eq` before two
classes of equal terms are merged, `cb_push` and `cb_pop` around its scopes, and
`cb_final_check` when it has nothing left to decide.  The plug-in answers with
axioms.  The core takes axioms back when it backtracks; the plug-in's maps stay,
but for `cut_VARMap`, which it undoes itself.

**What is hard.**  The answer of a combining algorithm depends on flags
collected over a loop that errors, early returns and other indeterminates may
interrupt in any order.  The static fields are overwritten by every suite,
probe and kill check, may be left half-written by an exception, and belong to
whichever operation came last.  Diagnosis sorts doubles exactly and ranks them
with a tolerance.  The best-first search prunes with results of other nodes
and diagnoses from shared state.  A mutation method that restores its document
a place off, or throws before it restores, spoils every later mutant of it.  The
string plug-in sees merges in any order and only once, looks at classes that are
about to change, and keeps maps that outlive, or do not outlive, the axioms they
go with.  The complete list, with its lines, is
`hazards` in `PROJECT.json`.

**What makes the parts correct.**  Combining: the answer is a function of the
children and never the loser when the winner was possible.  Tracing: it
changes no decision, and matrix and results describe the last suite.
Localization: a rank is the worst-case number of elements to inspect, and no
method ranks an element behind one it dominates.  Repair: each node is
diagnosed from its own run, a cheapest repair is found iff there is one within
the depth.  Mutation: the document is as it was after every method, a fault
location names what was changed, the file of a mutant holds that mutant.
String solver: a reduction defines the function it reduces; no axiom excludes a
solution; what is known is decided, whatever the order; the search for a value
loses no string and ends; cuts are known as long as their axioms.

## 2. The modules

`A <- B` means B extends A.

    Evaluation <- CombiningAlgs, CombiningPromise
    CombiningAlgs, CombiningPromise <- Combining <- MCCombining, CombiningProofs
    CombiningSpec   (takes the promise as a constant; implemented by Combining)
    CombiningAlgs, CombiningPromise <- Coverage <- MCCoverage, CoverageProofs
    Spectrum <- Diagnosis <- MCDiagnosis, DiagnosisProofs
    RepairProblem <- Repair <- MCRepair, RepairProofs
    RepairProblem <- RepairSpec                       (implemented by Repair)
    Evaluation <- MutationOperators <- Mutation <- MCMutation, MutationProofs
    StringFunctions <- RegexFunctions <- MCStringFunctions
    Containment <- MCContainment
    Containment, StringFunctions <- StringProofs
    Loops <- Splitting <- MCSplitting
    Loops <- Cuts <- MCCuts
    Splitting, Cuts <- WordEquationProofs
    Search <- MCSearch, SearchProofs

**Evaluation.**  `Target.match` down to `TargetMatch.match`, and
`Rule.evaluate`, as operators on what their parts evaluate to.  A loop with an
early exit is written as the quantifier it computes.

**CombiningAlgs, Combining.**  One call of `AbstractPolicy.evaluate`.
`CheckTarget` is its own target check; the loop of `combine` is `EvaluateRule`
(rules), `EvaluateUnmatched` (the two algorithms that evaluate policies without
matching them) or `MatchPolicy` then `EvaluateMatched` (all others); `Finish`
is the code after the loop, with one `...Tail` per algorithm; `AddObligations`
is `processObligationAndAdvices`.  The loops differ in which decisions return,
which are gathered, which errors set a flag and what an error of a target does;
`LoopOf` records that for each of the fifteen methods.  `seen` stands for the
`atLeastOne...` flags, `first` for the first indeterminate results, and
`obligations` for the gathered lists.

**CombiningPromise, CombiningSpec.**  The same answers without a loop.  An
error in a child leaves open what the child would have said; a *world* resolves
every error one way, and an overrides algorithm is promised to answer what it
would in all worlds, or the indeterminate that stands for them.  Where the code
deviates from that on purpose or by mistake the promise says so in a comment
(an error of a target under xacml3 permit-overrides, an `IndeterminateD` alone
under permit-overrides, `IndeterminateDP` of deny-overrides over policies).  A
child policy without a target ends a matching loop with an exception unless the
loop stops before it: `Promise` allows the exception, and the answers that stop
a loop when the children without a target say nothing.
`Combining` implements `CombiningSpec`: property `KeepsPromise`.

**Coverage.**  `Begin` chooses any of the three operations and a job; a job is
a policy with rules and a suite.  `StartTest` is the advice before a test
(`newRow`, and `init` where there is no suite), `ParseRequest` the request that
may not parse, `TraceTarget` and `TraceRule` the advice around
`AbstractPolicy.evaluate` and `Rule.evaluate` with `addCoverage`, `AnswerTest`
the answer of the combining algorithm (any one of its promise), `Judge` the
comparison with the oracle and `Finish` the return with the advice that
publishes `results`.  An exception sets `pc` to `"aborted"` and leaves the
static fields as they are; the next operation may follow.  `TracedEvaluate` is
the aspect's copy of `Rule.evaluate`, apart from `RuleEvaluate`, which is the
original.

**Spectrum, Diagnosis.**  `Spectrum` has the counts of the localizer and the
fourteen formulas as exact fractions.  The square roots of three of them are
left out, which changes no order.  `Diagnosis` runs one diagnosis: `ScoreElements`, `Sort`,
`RankLast`, `RankNext`.  What rounding can do is a choice: elements with equal
counts have equal doubles; scores that are equal as fractions but come from
different counts may be sorted either way, and the tolerance of
`approximateEqual` takes them as equal.  (Distinct scores of the small
spectra lie much farther apart than the tolerance.  In a large suite two
unequal scores may come closer than that and share a rank; this is not
modelled.)

**RepairProblem, Repair, RepairSpec.**  A repair problem says which tests each
policy fails, which mutants each position of it has, and in which order the
diagnosis lists its positions.  A node is the list of policies from the root
with its total rank.  `Poll`, `TestNode`, `CheckNode`, `RankSuspects`,
`ExpandPosition` (one per round of the loop over suspects), `ExpandThrows`,
`ExpandEnds`, `Exhausted` are the statements of `repair`.  `static` is the
policy that the static coverage matrix describes, and `RankSuspects` reads it,
not the node.  The queue is a set: `RepairProofs` shows that no node is tested
twice, so nothing is lost by that.  `RepairSpec` is the promise without a
queue: all paths of the tree with their costs, and a cheapest repair among
them.

**MutationOperators, Mutation.**  A document is a record: algorithm, target and
rules, a target being a sequence (AnyOf) of sequences (AllOf) of Match.  Each
`create...Mutants` method is an operator from document and element to an
outcome: the mutants with the counts in their names, the document left behind,
and whether the method threw.  Where a restore can change the order of elements
(rules moved and moved back, the Match, AllOf and AnyOf that
`createRemoveParallelTargetElementMutants` takes out one by one and puts back
at the *end*) it is written out; where the old value of an attribute is set
again, or a clone is changed, the document is the same by construction.
`createRemoveParallelTargetElementMutants` counts the AllOf of all AnyOf
together, so from the second AnyOf on it takes out even an only AllOf, which
`loadPolicy` refuses: the method throws and the change stays.

`Mutation` keeps a folder of them.  `Generate` is one method at one element and
the saving of what it returned; `NextMutator` starts a `Mutator` from a saved
mutant, as the panel does for mutants of second order.  The elements and
methods come in any order, which includes that of the code's loops.  What the
conflicting Match decide is stated with `TargetMatch` of
`Evaluation`; only equality is interpreted there.

**StringFunctions, RegexFunctions.**  One call of `cb_reduce_app`.  A function of constants is
computed; any other call is replaced by a fresh variable and an axiom, a second
definition of the same function with fresh variables for the parts of the
string.  An action is one `reduce_...`; `answers` are the values that the
variable may have when the arguments have theirs, so the axiom is an operator
that gives the set of its solutions.  `RegexFunctions` adds `RegexIn`, in a module
of its own as regular expressions need recursion: it builds a standard expression
from the reduced one; `Language` is what it matches.  The booleans of `Contains` that
axioms use are taken to follow the strings, which is the question of the next
module.

**Containment.**  `Contains(s, p)` becomes a Boolean, and a false Boolean says
nothing by itself: whether it follows the strings rests on axioms which
`cb_new_eq` adds.  `frames` is the stack of the core's scopes, each with the
classes and the axioms in it.  `AssertFact` is the core deciding an equation and
`Congruence` its merging two concats of equal arguments; both are a `NewEq`,
the callback on the classes *before* the merge: the early returns (`Skipped`),
what is refuted (`Refuted`), `ContainInNewEq` with its three checks, and
`RegexIn`.  Pointers are ranks: which term of a set comes first is a
parameter.  `skipped` is a history variable, the terms merged without a check.

**Splitting.**  A behaviour is one call of `simplifyConcatEq` or
`solve_concat_eq_str` for some values of the parts.  The axiom it asserts lists
the ways the boundaries of the parts may lie; an option is what its equations
amount to for each value of its overlap, and `Open` says that one flag value
fits.  `outcome` says whether these values satisfy the axiom.  The `known`,
`constants`, `selfCuts`, `knows` and `same` of a call are what it reads of the
solver: lengths (`getLenValue`), constants, cuts (`hasSelfCut`), whether
`canTwoNodesEq` finds out what cannot be, and of which pairs `inSameEqc` finds
out that they are equal (both may always fail to, and never say what is not so).
`same` is a set of pairs, so one may be known without the other; `knows` is one
flag, since a boundary that is kept although it cannot be adds an option that
the values do not satisfy, whichever others are dropped.  `"exception"` is `substr` out of range;
`"admitted, empty"` is a call whose overlap may be empty once
`nonEmptyStrVarAxiom` has been taken back.  `Loops` declares what it shares with
`Cuts`, the option `avoidLoopCut` and the flag `loopDetected`; its specification
is `CallSpec`, so that one module can prove about both.

**Cuts.**  `cut_VARMap` over many calls: `NewEq` is one equation (`Prepared` is
`checkandInit_cutVAR` of its parts, then up to two `Tried` cuts, each two
`addCutInfoMerge`), `Push` and `Pop` are the callbacks.  An equation says which of
its parts may overlap in which fresh variable.  `inForce` is a history variable:
the cuts made in the scopes there are, and whether their scope has been
returned to.

**Search.**  A variable `x` that nothing else determines.  Length testers offer
`LenStep` lengths or "more", value testers `valStep` strings of one length or
"more".  `Decide`, `DecideElsewhere`, `Backtrack`, `GiveUp` and `Restart` are
the core; `Decide` calls `FreeVarAttempt` (`cb_new_eq`), and `FinalCheck` is
`cb_final_check`.  An axiom belongs to the scope in which it was asserted and is
lost with it, the three maps stay.  The rest of the formula is the set of
strings it accepts.

## 3. The runs

| Run | Result | Distinct states | What it shows |
|---|---|---|---|
| `combining` | passes | 80 thousand | every list of up to 3 children, 15 algorithms; safety and the refinement |
| `combining_none_applied` | violation | - | NotApplicable although a Deny rule had an error |
| `coverage` | passes | 40 thousand | any sequence of suites, probes and kill checks |
| `diagnosis` | passes | 349 thousand | 14 methods on all small spectra |
| `repair` | passes | 102 thousand | searches of depth 0 to 3 over 5 policies |
| `mutation` | passes | 69 thousand | all methods at all elements of two policies, to second order |
| `functions` | passes | 96 thousand | nine functions and RegexIn on all short strings: computed and reduced they are one function |
| `containment` | passes | 6 thousand | seven equations, congruences and scopes in every order: axioms sound, and complete where the code checks |
| `splitting` | passes | 1.02 million | all ways to split an equation, on all solutions of up to 3 characters |
| `cuts` | passes | 31 thousand | overlaps of overlaps, in every order with pushes and pops |
| `cuts_backtrack` | violation | - | a pop loses the cuts of the scope it returns to |
| `search` | passes | 39 thousand | decisions, conflicts, backtracking and restarts in every order, and the search ends |

**Bounds, and why they are enough.**

* `combining`: the rules under test have one representative for each way of
  reaching each decision, the policies one for each result of the target and
  each decision below.  Three children contain each pair with a third before,
  between or after; a loop's memory (flags and the first of each error) tells
  no more than that apart.  The proofs remove the bound.  `MaxKids` and `AlgsUnderTest` are the bounds.
* `coverage`: one or two rules, one or two tests.  A row can be wrong by what
  the test before it left, an index by the entry before it; two of each are
  the first at which either can happen.  Every state of target and condition is
  met by a rule, and the suites contain requests that do not parse, targets
  that do not match or fail, early ends of the loop, a policy without a target
  and one with a repeated rule id.  Operations follow each other without bound.
  The proofs remove the bounds on rules and tests.
* `diagnosis`: all touched/untouched matrices of 3 elements by 3 tests and 2 by
  4 with any number of failed tests.  Ranks depend on pairs of neighbours;
  every combination of zero counts that a formula guards against occurs.  A few
  irregular spectra (other cells, rows of different lengths, stale results,
  nothing to rank) cover the exceptions.  The proofs remove the bounds.
* `repair`: four mutants that are mutants of each other, so that policies are
  reached over several paths and the search can run in circles; two tests, so
  that a mutant can fix one and break another; diagnoses that agree and
  disagree with the cheap path; depths above, at and below that of a repair; a
  mutant that crashes and a position where the mutator throws.
* `mutation`: `MaxCalls` bounds the methods called in a behaviour, the one that
  made the base mutant included.  Two are enough for a method to work on what
  another left, on the same document or in a mutant of a mutant.  The two
  policies have every shape the methods distinguish: no target, one or several
  AnyOf, AllOf and Match, an AnyOf longer than the one before it, conditions
  with and without a Function element and with and without a not, rules of both
  effects out of order, a data type without comparisons, one that the Mutator
  does not know, and AnyOf of a single AllOf each.  The proofs are for any
  policies and any `MaxCalls`.

* `functions`: strings of up to four characters, needles of up to two: the least
  with occurrences at both ends, in the middle, overlapping, and none.
  Positions run from -1 to one past the end.  Each subset of the arguments is
  constant.  Expressions have up to two operators over three constants, the
  empty one included; strings of their languages have up to `MaxLen` characters.
  `Defined` leaves out what the two definitions do not agree on (an empty
  needle, a substring out of range, a `RegexIn` met before; see `hazards`).
* `containment`: eleven terms and six keys, one of them of two constants and one
  of a constant and a concat.  A key's strings may be a constant,
  a variable or a concat with a constant inside, get their values before or
  after each other, be each other's, or be merged by congruence; the seven
  equations produce all of these, in all orders.  `MaxLevel` 1 is one scope to
  leave again.  The proofs remove these bounds.
* `splitting`: `MaxLen` 3 puts each boundary before, at and after each other one
  with something on either side; of what is no solution, parts of one and two
  characters.  Two letters tell equal from unequal.  An overlap may be any
  string of up to three characters.  The proof removes the bound.
* `cuts`: `x . y = m . n`, an equation of one of its overlaps with the part that
  the overlap was cut from, and one of type 6, at up to two scopes (three for
  the violation).  The proofs remove the bound.
* `search`: alphabets of two and three letters and testers of two or three
  strings (the code's are 32), so that the strings of a length end inside a
  tester, with a tester, and after several; `LenStep` is 2 (the code's 3).  The
  formulas accept strings of several lengths, the empty one, one, and none.
  `MaxElsewhere` and `MaxRestarts` bound the core's other decisions and its
  restarts to one each: enough for an axiom to be lost with a scope that is not
  its own.  The proofs are for every alphabet, step and bound.

Runs that end say `CHECK_DEADLOCK FALSE`, since one evaluation, diagnosis or
repair stops when it is done, a generation of mutants at its bound or with an
exception, a reduction when it is reduced, a search when it has answered, and
the core in a conflict of its first scope.  `coverage`, `cuts` and `splitting`
check for deadlock; in `splitting` that shows that every call is answered by
one of the cases.

**Fairness.**  `Combining`, `Diagnosis` and `Repair` assume `WF_vars(Next)`:
each is a single call on its caller's thread, with no locks, waits or I/O, and
a thread that has a next step takes it.  `Coverage` and `Mutation` assume none,
because their operations are started by a user and nothing is promised about
when; `Containment`, `Cuts`, `Splitting` and `RegexFunctions` assume none
because they claim safety only.  `Search` assumes `WF_vars(Next)`: the core is a
loop on one thread that goes on until it answers.  Which step it takes next is
its own choice and no fairness is assumed of that.  Liveness is part of
`FindsCheapestRepair` (the search answers) and of `Answers`.

**The properties.**

* `LoserIsSafe`: an overrides algorithm never answers its loser when a child it
  evaluated answers, or might without its error have answered, the winner.
* `ObligationsFollowDecision`, `ErrorsAreExplained`: what comes with an answer
  belongs to it.
* `KeepsPromise`: refinement of `CombiningSpec`: whatever the order of the
  children and wherever the loop stops, the answer is a promised one.
* `TracingIsFaithful`: the aspect's copy of `Rule.evaluate` answers what the
  original answers, and its record says what was answered.
* `MatrixDescribesSuite`: after `runTests`, one row and one verdict per test,
  each about its own test.
* `KilledByFirstFailure`: `isKilled` agrees with the full suite.
* `ResultsOfSuitesOnly`: probes, kill checks and aborted suites publish
  nothing.
* `RankEndsItsTie`, `RankIsWorstCase`: ranks are worst-case ranks although
  sort and tie disagree on rounding.
* `DominantIsNotOutranked`: for each formula, an element that at least as many
  failed and at most as many passed tests touch is not ranked behind.
* `BestFirst`, `DiagnosesItself`, `StepsNeverBreakTests`,
  `FindsCheapestRepair`: the search.
* `DocIsRestored`: until an exception, the document is the base mutant's after
  every method, to the order of the last Match.
* `FaultsAreLocal`: a mutant differs from the policy under mutation only in the
  elements its fault locations name, in any order of mutations that do not move
  elements.
* `OneStepRepairable`: six kinds of fault are undone by one method, so a repair
  of depth one exists for them.
* `SavedAsCreated`: files hold the mutants they are named after.  It leaves out
  `createAddNewRuleMutants` and `createRemoveParallelTargetElementMutants`,
  which give one name to several mutants of a call; see `hazards`.
* `TargetFalseOnSingleValues`: a false target matches no request of
  single-valued attributes.
* `IsFunction`, `RegexInIsFunction`: whatever arguments are constants, a reduced
  call has exactly the value of the function.
* `AxiomsAreValid`: every axiom on containment is true of all strings, so none
  excludes a solution.
* `KnownIsDecided`, `PiecesRefute`: once the strings of a `Contains` or `RegexIn`
  are known, or a known constant inside a string refutes it, its Boolean is
  decided, in whatever order these became known and after backtracking.  Strings
  of one class, and classes merged by congruence, are left out: there the code
  leaves the Boolean open (see `hazards`).  So is what no merge tells: a
  `Contains` of two constants (`Ground`), which `reduce_contains` computes but
  `reduce_replace` and `reduce_regexIn` register, and a constant whose needle
  is a concat that no equation has been found for yet.
* `SplitIsExact`: a split admits every solution of its equation, unless an
  option is left out to avoid a loop, and refuses what is none.
* `NeverExits`, `CutsAreKept`: `cut_VARMap` is consistent with the scopes, and
  holds the cuts of all scopes but the one returned to.
* `EachStringOnce`, `OffersNeverChange`, `NeverCrashes`: the testers of a length
  offer each string once, the same strings whenever they are asserted, and are
  never asked for one they do not have.
* `VerdictIsRight` (`SatHasValue` and `UnsatMeansNone`), `Answers`: the search
  answers, and rightly.

## 4. What is proved

All theorems are for every value of the constants.

* `CombiningProofs`: `TypeCorrect`, `LoserSafe`, `ObligationsFollow`,
  `ErrorsExplained` and `PromiseKept`, for children of any number under any of
  the fifteen algorithms.  The inductive invariant relates the flags to the
  prefix of children already handed out: a potential winner of the prefix has
  raised a flag that outranks the loser (`FlagInv`), a flag of an error comes
  with the child that raised it (`ErrorInv`), and the gathered children are
  exactly those of the prefix with the gathered decision (`ObligationInv`).  The
  properties speak of the answer only and are not inductive: they follow at
  `Finish`, where the prefix is the whole list.  `CauseInv`, for
  `ErrorsExplained`, adds that what `first` points at explains an error of its
  slot.  From `CallsAssumption`.

  `PromiseKept` is the safety half of the refinement of `CombiningSpec`: it is
  shown that `Init` maps to its `Init`, and every step to its `Answer` or to a
  stutter.  The argument has two halves.  The promise is brought down to what the
  children say: a choice of one answer per world shows which outcomes there are
  (`OutcomesFacts`), and so each promise is a cascade over the SET of
  contributions (`Promise3Facts`, `PromiseRule2Facts`, `PromisePolicy2Facts` and
  the others).  The loop is brought up to it: `HeardInv` says that the flags are
  EXACTLY what the children of the prefix said, and that none of them would have
  ended the loop; one that does end it is enough for the promise, whatever
  comes behind it (`StopsAtAnswers`), and behind the last child the tail is the
  promised cascade (`Tails3Promised`, `Tails2Promised`, `OtherTailsPromised`).
* `CoverageProofs`: `TypesHold`, `TracingFaithful`, `MatrixDescribes`,
  `KilledByFirst` and `ResultsPublished`, for policies and suites of any length
  and operations in any order, ended by their return, by a failed test or by an
  exception.  The invariant says how far each operation is (`PhaseInv`), that
  the matrix has a row for each test begun (`MatrixInv`), that the verdicts
  agree with the answers so far (`VerdictsInv`), what the static results are of
  (`ResultsInv`), and of each row that it describes its test, the last one up to
  the rule that is next (`RowsInv`).  A row starts as placeholders, so a test
  that leaves early is described too.  From `JobsAssumption`, and
  `PathsAssumption`: the path of a target is no rule's.
* `DiagnosisProofs`: `TypeCorrect`, `RanksAreTieEnds`, `RanksAreWorstCase` and
  `DominantsComeFirst`, for every spectrum.  The invariant is about the
  positions the loop has passed.  It needs no transitivity of ties, which a
  tolerance does not have.  That the end of a tie is the worst case is a count of
  the elements not behind it, along a sorted permutation.  Dominance is proved
  formula by formula: each of the fourteen is a fraction which does not fall
  when more failed and fewer passed tests touch the element.  Where a formula
  divides by zero the guard of the code decides, and the lemma covers it.  From
  `SpectraAssumption`.
* `RepairProofs`: `TypeCorrect`, `SearchIsBestFirst`, `OwnDiagnosis`,
  `PathsImprove` and `DepthIsBounded`.  The invariant adds that the node being
  expanded is promising and within depth, and that what was tested is not
  dearer than the polled node while what joins the queue is dearer; so no node
  is polled twice, every polled node runs its own tests, and the static matrix
  is its own when it is diagnosed.  Ranks counted from 1 are essential: from 0,
  a child could be as cheap as its parent.  From `ProblemsAssumption`.

  `AnswersAreCheapest` is the safety half of `FindsCheapestRepair`: `Init` maps
  to the `Init` of `RepairSpec`, and every step to its `Answer` or to a stutter.
  The paths of the promise are shown to be the levels their recursive definition
  speaks of (`PathsAreLevels`), so that what holds of the root and of every step
  holds of all paths (`PathInduction`).  `FrontierInv` is about the search: each
  tested node has, for each of its mutants, a node no dearer than the mutant's
  cheapest place, unless the loop over suspects has yet to come to such a place;
  a broken position is either ahead of that loop or has ended it.  From it, every
  path has a node at its end or a waiting one that is no dearer on its way
  (`PathsAreCovered`).  So the polled node, being the cheapest, is no dearer than
  any repair or trouble, and an empty queue leaves none.
* `MutationProofs`: `MutationTypes`, `DocumentRestored`, `FaultLocations`,
  `FilesHoldMutants`, `OneStepBack` and `FalseTargets`, for any policies.  One
  lemma per method (`...Sound`) says what its outcome is: documents that load,
  the change at the element it was called on, the document as it was.  The
  restores that put elements back one by one are followed element by element.
  The invariant is `SourceInv` (the document is the source's until an
  exception), `MutantsInv` (a mutant differs from the policy under mutation only
  at its locations; a mutant of the Mutator at work comes of a call that is
  done) and `FilesInv` (each file holds the mutant of its name); that a call is
  done once for an element keeps names apart.  `OriginInv` adds which call
  made a mutant; from it, one lemma per kind of fault (`...Undone`) names the
  method that leads back.  `HasRoom` is needed for a rule to be added: the
  ids for new rules do not run out.  From `PoliciesAssumption`.
* `SearchProofs`: `SearchTypes`, `SearchNeverCrashes`, `VerdictsAreRight`
  (from `SatIsWitnessed` and `UnsatIsRight`), `StringsOfferedOnce` and
  `OffersAreKept`, for every alphabet, step and formula.  Strings of one length are offered in the order of their
  encodings; an encoding's successor is shown to be the next one in
  lexicographic order, so a run of offers is an interval of that order, the next
  run starts where it ends, and "more" is missing only when none is left
  (`MapsInv`).  `ScopesInv` says that the axioms of every scope are of testers
  that there are, with their offers.  `UnsatIsRight` needs `RefutedInv`: a
  choice the core has refuted means something that no accepted string has, and
  as offers never change it means the same after any backtracking.  From
  `SearchAssumption`.
* `StringProofs`, of containment: `ContainmentTypes`, `ContainmentIsSound`,
  `WhatIsKnownIsDecided` and `WrongPiecesRefute`, for every context of terms and
  order of pointers.  Each axiom is shown to follow from
  its own premises: from what includes what, and not from the classes that the
  plug-in saw.  The invariant says so of the axioms of every scope; of the
  top one alone it would not survive a pop.  It needs that classes are
  classes (equal terms share theirs), as an axiom names a term of a class by its
  constant.  From `TermsAssumption`, `RankAssumption`, `IncludesAssumption` and
  `ModelsAssumption`.

  The other two are the completeness of the checks.  `Complete` says of a scope
  that each key whose value is known has a *direct* axiom: one that mentions no
  other key and whose equations are in the classes.  Direct axioms stay direct as
  classes grow, so an axiom is needed only at the merge that makes a value known
  (`StepComplete`): `KeyStep`, `PieceStep` and `RegexStep` go through which of the
  two classes had the constant and which the key's strings, and find the axiom
  that `checkContainByEqcVal`, `checkContainBySubStr` or `checkRegexIn` adds in
  that case.  What a skipped merge leaves untold stays marked by `skipped`.

  Of functions: `FunctionsAreOne`, for every alphabet, strings of any length, any
  positions, and whichever arguments are constants.  The fresh variables of an
  axiom are fixed by where they cut the string (`PartsAre`, `AroundIs`); what a
  first part, or a last one, contains is what the string contains up to there,
  or from there on (`NotInUpto`, `NotInFrom`), so of all places of a needle the
  axioms admit only the first, or the last (`FirstInIs`, `LastInIs`).  Then the
  computation, the axiom and the meaning of each function are compared
  (`IndexofIs`, `FirstFrom`, `ReplaceIs` and the others).  From
  `ArgumentsAssumption`: arguments are strings and integers as the function takes
  them.
* `WordEquationProofs`, of cuts: `CutsTypes`, `CutsNeverExit` and
  `KnownCutsAreKept`, for every set of equations.  The invariant: the levels of a stack go up and end at the
  current one, each entry has what the ones below it have, and each cut that is
  in force, and whose scope has not been returned to, has an entry of its level.
  A pop then keeps just the entries that are needed, and a cut made at a higher
  level takes over what it hides.  From `EquationsAssumption`.

  Of splitting: `SplitsAreExact`, for every alphabet, parts of any length, any of
  them constants, and whatever is known of their lengths, cuts and equality.
  There is one lemma per function of the code (`Type1IsRight` to `Type6IsRight`,
  `SolveIsRight`).  The argument is one about strings: of two ways to cut one
  string, what the longer first part has more is in front of the other's second
  part (`Overlap`), and with equal lengths there is only one way (`CatCancel`).
  So the boundary of a solution singles out one option: all equations of that one
  hold, and of every other option none does, as the axiom demands (`CutsSays`,
  `PlaceInFirst`, `PlaceInSecond`, `PlaceInBoth`, `PlaceInWhole`); and whoever
  makes the equations of an option true solves the equation.  From
  `StringsAssumption`: an overlap may be what any part has behind any of its
  places, and some overlap is not empty.

Where a proof needs induction over numbers (the runs of `Search`, the counts of
`Diagnosis`) it takes a minimal counterexample: `<` on the naturals is
well-founded, and the library's `WFMin` gives the least element of a set.

Only model-checked:

* liveness, which is out of the prover's reach: `Answers`, and that the search
  of `FindsCheapestRepair` and the call of `KeepsPromise` answer at all;
* `RegexInIsFunction`: what recursive definitions on regular expressions compute.

## 5. Findings

Two places where the code does something other than its comments say are
violation runs; `findings` in `PROJECT.json` quotes them.

* xacml3 permit-overrides over rules forgets an `IndeterminateD`.
* `cb_pop` counts the level down first and then drops the entries of
  `cut_VARMap` from that level on.  So after a pop the cuts of the scope that the
  search is back in are forgotten though their axioms hold, and `hasSelfCut` lets
  the same parts overlap again.  The theorem `KnownCutsAreKept` states what does
  hold: all other cuts are kept.

Others that the models reproduce, without a run of their own:

* deny-unless-permit and permit-unless-deny evaluate policies they have not
  matched (`EvaluateUnmatched`), and `AbstractPolicy.match` dereferences a null
  target (`NullPointerException` in `Combining`).
* `PolicyCoverageFactory.init` does not reset `results`, and the aspect cannot
  record the target of a policy that has none (`Coverage`).
* `createRemoveParallelTargetElementMutants` throws in the middle of its change
  and does not restore the document; the "false" target of RTF and PTF matches a
  request whose attribute has both values (`Mutation`).
* A `Contains` of equal strings, or of strings merged by congruence, may stay
  undecided although both are known: `checkContainByEqNodes` looks at two equal
  terms in the order of their pointers only, and `cb_new_eq` returns early
  (`Checked` in `Containment`).
* An empty needle has no place in the axioms of `Indexof`, `LastIndexof` and
  `Replace`: the formula becomes unsatisfiable (`Defined` in `StringFunctions`).
* Lengths that contradict an equation end the solver with an exception of
  `substr` where it means to refuse them (`"exception"` in `Splitting`).

## 6. What is left out, and the plan

Left out of the modelled parts: how requests, attributes and functions are
evaluated (the models take their results as parameters), status texts, the
encoding of policies, how files are read and written.  `Coverage` and `Mutation`
have no policy sets, and `createRemoveDefaultRulesMutant` is not modelled.
A behaviour of `Mutation` has one second-order `Mutator`, for any of the mutants;
`MutationPanel` runs one for each of them in the same folder, and then saves all
mutants of the second order once more.
Rounding beyond the order of equal scores is not modelled, nor is `random` as a
generator: a shuffle is any permutation.

Of the string plug-in: the substitution of known values into concats
(`simplifyConcat`, `simplifyParent`) and the inference of lengths, which come
before a split; `canConcatEqStr` and `canConcatEqConcat`, of which `Splitting`
only says that they never refute what is so; that two calls share the fresh
variables of an equation; several free variables whose values depend on each
other; unrolled regular expressions; a `RegexCharRange` of anything but two
characters, at which the solver exits, or up to the character 127, at which its
counter overflows.  Alphabets have at least two characters (`setAlphabet` has 255
or 3): of one, `getNextValEncode` would never see a length used up.

Z3 itself (`src/Z3-str/z3`, most of the lines of the repository) is a vendored
prover.  It is not modelled but for what the plug-in relies on: classes that
merge, scopes, decisions, backtracking and restarts.  The PDP's data types and
the policy editor are vendored libraries as well.

Planned, in this order:

1. `Workbench`: the menu operations of `DebugPanel` and `TestPanel` over the
   static fields, composed from `Coverage`, `Diagnosis` and `Repair`.
2. Policy sets in `Coverage`, with `Combining` in the place of its promise, and
   in `Mutation`, with `createRemoveDefaultRulesMutant`.
3. `MutationBasedTestGenerator`: kept tests and killed mutants.
4. `RuleCoverage` and `DecisionCoverage` generators: which outcomes of rules
   their constraint sets reach.
5. `simplifyConcat` and `simplifyParent` over the classes of `Containment`, and
   `Splitting` over sequences of calls that share `varForBreakConcat`.
